---- MODULE Spec2Model ----
(***************************************************************************)
(* davy: Docker-based sandbox runner for agent CLIs (src/src/main.rs).     *)
(*                                                                         *)
(* The launch path of run_container is modelled as a state machine: one    *)
(* action per function call or child-process wait of run_container, with   *)
(* the host (filesystem, environment, container runtime) as the source of  *)
(* nondeterminism.  Paths are sequences of components, file contents and   *)
(* the DOCKER_HOST value are sequences of one-character strings, argument  *)
(* vectors are sequences of strings, messages are sequences of fragments.  *)
(***************************************************************************)
EXTENDS Integers, Sequences, FiniteSets, TLC

VARIABLES
    args,              \* RunArgs: the parsed launch request
    host,              \* the host: filesystem, environment, ids, clock
    settings,          \* RuntimeSettings (meaningful once built)
    pc,                \* position in run_container / main
    invocations,       \* external commands spawned so far, in order
    stderr,            \* lines written to the error stream
    exit_code,         \* <<>> while the process runs, <<c>> once it exited
    ssh_auth_content,  \* Result of collect_ssh_authorized_keys
    encoded,           \* STANDARD.encode(ssh_auth_content)
    ret,               \* result of a function applied on its own
    auth_volume        \* the named credential volume in the container runtime

vars == <<args, host, settings, pc, invocations, stderr, exit_code,
          ssh_auth_content, encoded, ret, auth_volume>>

-----------------------------------------------------------------------------
(* Option<T> is a sequence of length at most one; Result<T> is a record.   *)

None == <<>>

Some(v) == <<v>>

Ok(v) == [ok |-> TRUE, val |-> v, err |-> <<>>]

Err(msg) == [ok |-> FALSE, val |-> <<>>, err |-> msg]

Range(s) == {s[i] : i \in 1..Len(s)}

\* String built from a sequence of one-character strings.
RECURSIVE Str(_)
Str(cs) == IF cs = <<>> THEN "" ELSE Head(cs) \o Str(Tail(cs))

-----------------------------------------------------------------------------
(* Paths.                                                                  *)

\* An absolute path starts with the root component "/"; Path::join of a
\* relative component.
Join(p, name) == Append(p, name)

IsAbsolute(p) == p # <<>> /\ Head(p) = "/"

\* Path::display.
RECURSIVE DisplayRel(_)
DisplayRel(p) ==
    IF p = <<>> THEN ""
    ELSE IF Len(p) = 1 THEN Head(p)
    ELSE Head(p) \o "/" \o DisplayRel(Tail(p))

Display(p) ==
    IF IsAbsolute(p) THEN "/" \o DisplayRel(Tail(p)) ELSE DisplayRel(p)

\* Path::parent: None for the root and for the empty path.
Parent(p) ==
    IF p = <<>> \/ p = <<"/">> THEN None ELSE Some(SubSeq(p, 1, Len(p) - 1))

\* Path::file_name: None for the root and for the empty path.
FileName(p) ==
    IF p = <<>> \/ p = <<"/">> THEN None ELSE Some(p[Len(p)])

\* Splits a sequence of characters at every sep (empty pieces included).
RECURSIVE SplitAt(_, _, _)
SplitAt(cs, sep, cur) ==
    IF cs = <<>> THEN <<cur>>
    ELSE IF Head(cs) = sep THEN <<cur>> \o SplitAt(Tail(cs), sep, <<>>)
    ELSE SplitAt(Tail(cs), sep, Append(cur, Head(cs)))

\* PathBuf::from of a path text: the root component, if the text starts with
\* "/", then its non-empty components.
RECURSIVE StrEach(_)
StrEach(pieces) ==
    IF pieces = <<>> THEN <<>>
    ELSE IF Head(pieces) = <<>> THEN StrEach(Tail(pieces))
    ELSE <<Str(Head(pieces))>> \o StrEach(Tail(pieces))

PathFromChars(cs) ==
    (IF cs # <<>> /\ Head(cs) = "/" THEN <<"/">> ELSE <<>>)
        \o StrEach(SplitAt(cs, "/", <<>>))

-----------------------------------------------------------------------------
(* The host: filesystem stats, environment, ids.                           *)

\* A relative path is looked up under the current directory.
Resolve(h, p) ==
    IF IsAbsolute(p) THEN Some(p)
    ELSE IF h.cwd = None THEN None
    ELSE Some(h.cwd[1] \o p)

Kind(h, p) ==
    LET r == Resolve(h, p)
    IN  IF r # None /\ r[1] \in DOMAIN h.fs THEN h.fs[r[1]] ELSE "absent"

IsDir(h, p) == Kind(h, p) = "dir"

IsFile(h, p) == Kind(h, p) = "file"

Exists(h, p) == Kind(h, p) # "absent"

EnvVar(h, k) == IF k \in DOMAIN h.env THEN Some(h.env[k]) ELSE None

\* h.unix is the build target: the cfg(unix) or the cfg(not(unix)) code.
home_dir(h) ==
    IF h.home_env # None THEN Ok(h.home_env[1])
    ELSE IF ~h.unix THEN Err(<<"HOME is not set">>)
    ELSE IF h.passwd_home # None THEN Ok(h.passwd_home[1])
    ELSE Err(<<"HOME is not set and current user home directory could not be resolved">>)

current_dir(h) ==
    IF h.cwd # None THEN Ok(h.cwd[1])
    ELSE Err(<<"failed to read current directory">>)

-----------------------------------------------------------------------------
(* Filesystem resolver.                                                    *)

\* resolve_dockerfile falling back to the config directory when the current
\* directory has no candidate.
resolve_dockerfile_fallback(h, from_cli, local) ==
    LET cwd == current_dir(h)
        home == home_dir(h)
        local_rocky == Join(cwd.val, "rocky.Dockerfile")
        local_debian == Join(cwd.val, "debian.Dockerfile")
        config_dir == home.val \o <<".config", "davy">>
        rocky == Join(config_dir, "rocky.Dockerfile")
        debian == Join(config_dir, "debian.Dockerfile")
    IN  IF from_cli # None THEN Ok(from_cli[1])
        ELSE IF local /\ cwd.ok /\ IsFile(h, local_rocky) THEN Ok(local_rocky)
        ELSE IF local /\ cwd.ok /\ IsFile(h, local_debian) THEN Ok(local_debian)
        ELSE IF ~home.ok THEN home
        ELSE IF IsFile(h, rocky) THEN Ok(rocky)
        ELSE IF IsFile(h, debian) THEN Ok(debian)
        ELSE Err(<<"no Dockerfile found (looked for ", Display(rocky),
                   " and ", Display(debian),
                   "); use --dockerfile, --local-dockerfile, or DAVY_DOCKERFILE">>)

resolve_dockerfile(h, from_cli, local) ==
    IF from_cli # None THEN Ok(from_cli[1])
    ELSE IF local THEN
        LET cwd == current_dir(h)
            rocky == Join(cwd.val, "rocky.Dockerfile")
            debian == Join(cwd.val, "debian.Dockerfile")
        IN  IF ~cwd.ok THEN cwd
            ELSE IF IsFile(h, rocky) THEN Ok(rocky)
            ELSE IF IsFile(h, debian) THEN Ok(debian)
            ELSE Err(<<"no Dockerfile found in current directory (looked for ",
                       Display(rocky), " and ", Display(debian), ")">>)
    ELSE
        LET home == home_dir(h)
            config_dir == home.val \o <<".config", "davy">>
            rocky == Join(config_dir, "rocky.Dockerfile")
            debian == Join(config_dir, "debian.Dockerfile")
        IN  IF ~home.ok THEN home
            ELSE IF IsFile(h, rocky) THEN Ok(rocky)
            ELSE IF IsFile(h, debian) THEN Ok(debian)
            ELSE Err(<<"no Dockerfile found (looked for ", Display(rocky),
                       " and ", Display(debian),
                       "); use --dockerfile, --local-dockerfile, or DAVY_DOCKERFILE">>)

default_container_name(h, project_dir) ==
    LET file_name == FileName(project_dir)
        base == IF file_name # None /\ file_name[1] # ""
                THEN file_name[1] ELSE "project"
    IN  "davy-" \o base \o "-" \o h.now

-----------------------------------------------------------------------------
(* Mount planner.                                                          *)

push_env(v, value) == v \o <<"-e", value>>

push_volume(v, volume) == v \o <<"-v", volume>>

\* add_bind_mount that takes a source that is no directory for a missing one.
add_bind_mount_lenient(v, h, source, target, label, allow_missing) ==
    IF IsDir(h, source) THEN
        [ok |-> TRUE, val |-> TRUE, err |-> <<>>, warn |-> <<>>,
         args |-> push_volume(v, Display(source) \o ":" \o target)]
    ELSE IF allow_missing THEN
        [ok |-> TRUE, val |-> FALSE, err |-> <<>>, args |-> v,
         warn |-> <<<<"davy: warning: ", label, " mount source not found at ",
                      Display(source), "; skipping.">>>>]
    ELSE
        [ok |-> FALSE, val |-> FALSE, warn |-> <<>>, args |-> v,
         err |-> <<label, " mount source not found: ", Display(source)>>]

\* add_bind_mount that fails on every missing source.
add_bind_mount_strict(v, h, source, target, label, allow_missing) ==
    IF IsDir(h, source) THEN
        [ok |-> TRUE, val |-> TRUE, err |-> <<>>, warn |-> <<>>,
         args |-> push_volume(v, Display(source) \o ":" \o target)]
    ELSE IF Exists(h, source) THEN
        [ok |-> FALSE, val |-> FALSE, warn |-> <<>>, args |-> v,
         err |-> <<label, " mount source is not a directory: ", Display(source)>>]
    ELSE
        [ok |-> FALSE, val |-> FALSE, warn |-> <<>>, args |-> v,
         err |-> <<label, " mount source not found: ", Display(source)>>]

\* Result<bool> together with the argument vector and the warnings written.
add_bind_mount(v, h, source, target, label, allow_missing) ==
    IF IsDir(h, source) THEN
        [ok |-> TRUE, val |-> TRUE, err |-> <<>>, warn |-> <<>>,
         args |-> push_volume(v, Display(source) \o ":" \o target)]
    ELSE IF Exists(h, source) THEN
        [ok |-> FALSE, val |-> FALSE, warn |-> <<>>, args |-> v,
         err |-> <<label, " mount source is not a directory: ", Display(source)>>]
    ELSE IF allow_missing THEN
        [ok |-> TRUE, val |-> FALSE, err |-> <<>>, args |-> v,
         warn |-> <<<<"davy: warning: ", label, " mount source not found at ",
                      Display(source), "; skipping.">>>>]
    ELSE
        [ok |-> FALSE, val |-> FALSE, warn |-> <<>>, args |-> v,
         err |-> <<label, " mount source not found: ", Display(source)>>]

-----------------------------------------------------------------------------
(* Docker socket.                                                          *)

UnixPrefix == <<"u", "n", "i", "x", ":", "/", "/">>

\* str::strip_prefix
StripPrefix(cs, prefix) ==
    IF Len(cs) >= Len(prefix) /\ SubSeq(cs, 1, Len(prefix)) = prefix
    THEN Some(SubSeq(cs, Len(prefix) + 1, Len(cs)))
    ELSE None

parse_unix_socket_from_docker_host(docker_host) ==
    LET rest == StripPrefix(docker_host, UnixPrefix)
    IN  IF rest # None /\ rest[1] # <<>> THEN Some(PathFromChars(rest[1]))
        ELSE None

DefaultDockerSock == <<"/", "var", "run", "docker.sock">>

\* A byte that is part of no UTF-8 encoding, as one element of a value.
InvalidByte == "<FF>"

IsUnicode(cs) == \A i \in 1..Len(cs) : cs[i] # InvalidByte

\* env::var("DOCKER_HOST").ok(): Err(NotPresent) and Err(NotUnicode) are
\* both None; h.docker_host is the value in the environment, if one is set.
DockerHostVar(h) ==
    IF h.docker_host # None /\ IsUnicode(h.docker_host[1]) THEN h.docker_host
    ELSE None

resolve_docker_socket_path(h, from_cli) ==
    LET docker_host == DockerHostVar(h)
        parsed == IF docker_host = None THEN None
                  ELSE parse_unix_socket_from_docker_host(docker_host[1])
        socket == IF from_cli # None THEN Some(from_cli[1])
                  ELSE IF parsed # None THEN parsed
                  ELSE IF docker_host # None THEN None
                  ELSE Some(DefaultDockerSock)
    IN  IF socket = None THEN
            Err(<<"DOCKER_HOST is set to '", Str(docker_host[1]),
                  "', but --docker needs a local unix socket. Set --docker-sock or DAVY_DOCKER_SOCK.">>)
        ELSE IF ~Exists(h, socket[1]) THEN
            Err(<<"docker socket not found: ", Display(socket[1])>>)
        ELSE IF h.unix /\ Kind(h, socket[1]) # "socket" THEN
            Err(<<"docker socket path is not a unix socket: ", Display(socket[1])>>)
        ELSE Ok(socket[1])

\* Result<Option<u32>>: the owning group of the socket file.
docker_sock_gid(h, path) ==
    IF path = None THEN Ok(None)
    ELSE IF ~h.unix THEN Ok(None)
    ELSE IF ~Exists(h, path[1]) THEN
        Err(<<"failed to read metadata for docker socket at ", Display(path[1])>>)
    ELSE Ok(Some(h.sock_gid))

-----------------------------------------------------------------------------
(* Credential aggregator.                                                  *)

WhiteSpace == {" ", "\t", "\n", "\r", "\f"}

\* str::trim
RECURSIVE TrimStart(_)
TrimStart(cs) ==
    IF cs # <<>> /\ Head(cs) \in WhiteSpace THEN TrimStart(Tail(cs)) ELSE cs

RECURSIVE TrimEnd(_)
TrimEnd(cs) ==
    IF cs # <<>> /\ cs[Len(cs)] \in WhiteSpace
    THEN TrimEnd(SubSeq(cs, 1, Len(cs) - 1)) ELSE cs

Trim(cs) == TrimEnd(TrimStart(cs))

\* str::lines: split at "\n", a final empty piece is no line, and the "\r"
\* of a "\r\n" ending is not part of the line.
StripCr(line) ==
    IF line # <<>> /\ line[Len(line)] = "\r"
    THEN SubSeq(line, 1, Len(line) - 1) ELSE line

Lines(content) ==
    LET pieces == SplitAt(content, "\n", <<>>)
        kept == IF pieces[Len(pieces)] = <<>>
                THEN SubSeq(pieces, 1, Len(pieces) - 1) ELSE pieces
    IN  [i \in 1..Len(kept) |-> IF i < Len(pieces) THEN StripCr(kept[i]) ELSE kept[i]]

\* fs::read_to_string
read_to_string(h, path) ==
    IF IsFile(h, path) /\ path \in DOMAIN h.content THEN Ok(h.content[path])
    ELSE Err(<<"failed to read SSH keys from ", Display(path)>>)

\* The loop of collect_key_lines_from_file keeping every non-empty line.
RECURSIVE KeyLinesLoopKeepAll(_, _)
KeyLinesLoopKeepAll(lines, st) ==
    IF lines = <<>> THEN st
    ELSE LET line == Trim(Head(lines))
         IN  IF line = <<>> THEN KeyLinesLoopKeepAll(Tail(lines), st)
             ELSE KeyLinesLoopKeepAll(Tail(lines),
                                      [unique |-> st.unique \cup {line},
                                       output |-> Append(st.output, line)])

\* The loop of collect_key_lines_from_file over the lines of one file; st is
\* the pair (unique, output).
RECURSIVE KeyLinesLoop(_, _)
KeyLinesLoop(lines, st) ==
    IF lines = <<>> THEN st
    ELSE LET line == Trim(Head(lines))
         IN  IF line = <<>> THEN KeyLinesLoop(Tail(lines), st)
             ELSE IF line \in st.unique THEN KeyLinesLoop(Tail(lines), st)
             ELSE KeyLinesLoop(Tail(lines),
                               [unique |-> st.unique \cup {line},
                                output |-> Append(st.output, line)])

collect_key_lines_from_file(h, path, st) ==
    LET content == read_to_string(h, path)
    IN  IF ~content.ok THEN content
        ELSE Ok(KeyLinesLoop(Lines(content.val), st))

\* Byte value of the characters the model uses.
Byte(c) ==
    CASE c = "\t" -> 9  [] c = "\n" -> 10 [] c = "\f" -> 12 [] c = "\r" -> 13
      [] c = " " -> 32  [] c = "." -> 46
      [] c = "a" -> 97  [] c = "b" -> 98  [] c = "c" -> 99  [] c = "k" -> 107
      [] c = "p" -> 112 [] c = "t" -> 116 [] c = "u" -> 117 [] c = "x" -> 120

\* Ord for file names: bytewise lexicographic.
RECURSIVE NameLess(_, _)
NameLess(a, b) ==
    IF b = <<>> THEN FALSE
    ELSE IF a = <<>> THEN TRUE
    ELSE IF Byte(Head(a)) # Byte(Head(b)) THEN Byte(Head(a)) < Byte(Head(b))
    ELSE NameLess(Tail(a), Tail(b))

\* Vec::sort of the directory entries (all in one directory).
RECURSIVE SortNames(_)
SortNames(names) ==
    IF names = {} THEN <<>>
    ELSE LET least == CHOOSE n \in names : \A m \in names \ {n} : NameLess(n, m)
         IN  <<least>> \o SortNames(names \ {least})

\* Path::extension of a file name: the part after the last ".", if the part
\* before it is not empty.
LastDot(name) ==
    LET dots == {i \in 1..Len(name) : name[i] = "."}
    IN  IF dots = {} THEN 0 ELSE CHOOSE i \in dots : \A j \in dots : j <= i

Extension(name) ==
    IF LastDot(name) <= 1 THEN None
    ELSE Some(SubSeq(name, LastDot(name) + 1, Len(name)))

PubExt == <<"p", "u", "b">>

\* fs::read_dir: the names in a directory, in no particular order.
read_dir(h, dir) ==
    IF IsDir(h, dir) /\ dir \in DOMAIN h.dir_entries THEN Ok(h.dir_entries[dir])
    ELSE Err(<<"failed to read ", Display(dir)>>)

\* The loop over the sorted *.pub paths.
RECURSIVE PubsLoop(_, _, _, _)
PubsLoop(h, dir, pubs, st) ==
    IF pubs = <<>> THEN Ok(st)
    ELSE LET path == Join(dir, Str(Head(pubs)))
         IN  IF IsFile(h, path) THEN
                 LET r == collect_key_lines_from_file(h, path, st)
                 IN  IF ~r.ok THEN r ELSE PubsLoop(h, dir, Tail(pubs), r.val)
             ELSE PubsLoop(h, dir, Tail(pubs), st)

\* keys.join("\n")
RECURSIVE JoinLines(_)
JoinLines(keys) ==
    IF keys = <<>> THEN <<>>
    ELSE IF Len(keys) = 1 THEN Head(keys)
    ELSE Head(keys) \o <<"\n">> \o JoinLines(Tail(keys))

EmptyKeys == [unique |-> {}, output |-> <<>>]

\* The sources read, up to the emptiness check: Result<(unique, keys)>.
collect_key_sources(h) ==
    IF h.ssh_keys_file # None THEN
        LET key_path == h.ssh_keys_file[1]
        IN  IF ~IsFile(h, key_path) THEN
                Err(<<"DAVY_SSH_AUTHORIZED_KEYS_FILE not found: ", Display(key_path)>>)
            ELSE collect_key_lines_from_file(h, key_path, EmptyKeys)
    ELSE
        LET home == home_dir(h)
            ssh_dir == Join(home.val, ".ssh")
            authorized_keys == Join(ssh_dir, "authorized_keys")
            first == IF IsFile(h, authorized_keys)
                     THEN collect_key_lines_from_file(h, authorized_keys, EmptyKeys)
                     ELSE Ok(EmptyKeys)
            entries == read_dir(h, ssh_dir)
            pubs == SortNames({n \in entries.val : Extension(n) = Some(PubExt)})
        IN  IF ~home.ok THEN home
            ELSE IF ~first.ok THEN first
            ELSE IF ~IsDir(h, ssh_dir) THEN first
            ELSE IF ~entries.ok THEN entries
            ELSE PubsLoop(h, ssh_dir, pubs, first.val)

\* collect_ssh_authorized_keys without the check for an empty key list.
collect_ssh_authorized_keys_unchecked(h) ==
    LET r == collect_key_sources(h)
    IN  IF ~r.ok THEN r
        ELSE Ok(JoinLines(r.val.output) \o <<"\n">>)

collect_ssh_authorized_keys(h) ==
    LET r == collect_key_sources(h)
    IN  IF ~r.ok THEN r
        ELSE IF r.val.output = <<>> THEN
            Err(<<"no SSH public keys found. Add ~/.ssh/*.pub or set DAVY_SSH_AUTHORIZED_KEYS_FILE">>)
        ELSE Ok(JoinLines(r.val.output) \o <<"\n">>)

\* base64 STANDARD alphabet, with padding.
B64Alphabet ==
    <<"A", "B", "C", "D", "E", "F", "G", "H", "I", "J", "K", "L", "M",
      "N", "O", "P", "Q", "R", "S", "T", "U", "V", "W", "X", "Y", "Z",
      "a", "b", "c", "d", "e", "f", "g", "h", "i", "j", "k", "l", "m",
      "n", "o", "p", "q", "r", "s", "t", "u", "v", "w", "x", "y", "z",
      "0", "1", "2", "3", "4", "5", "6", "7", "8", "9", "+", "/">>

B64Char(n) == B64Alphabet[n + 1]

RECURSIVE EncodeBytes(_)
EncodeBytes(bs) ==
    IF bs = <<>> THEN <<>>
    ELSE IF Len(bs) = 1 THEN
        <<B64Char(bs[1] \div 4), B64Char((bs[1] % 4) * 16), "=", "=">>
    ELSE IF Len(bs) = 2 THEN
        <<B64Char(bs[1] \div 4), B64Char((bs[1] % 4) * 16 + bs[2] \div 16),
          B64Char((bs[2] % 16) * 4), "=">>
    ELSE
        <<B64Char(bs[1] \div 4), B64Char((bs[1] % 4) * 16 + bs[2] \div 16),
          B64Char((bs[2] % 16) * 4 + bs[3] \div 64), B64Char(bs[3] % 64)>>
            \o EncodeBytes(SubSeq(bs, 4, Len(bs)))

\* STANDARD.encode of a text.
Base64Encode(cs) == EncodeBytes([i \in 1..Len(cs) |-> Byte(cs[i])])

-----------------------------------------------------------------------------
(* build_runtime_settings.                                                 *)

RECURSIVE ExtraEnvLoop(_, _)
ExtraEnvLoop(kvs, v) ==
    IF kvs = <<>> THEN v ELSE ExtraEnvLoop(Tail(kvs), push_env(v, Head(kvs)))

RECURSIVE PassEnvLoop(_, _, _)
PassEnvLoop(h, keys, v) ==
    IF keys = <<>> THEN v
    ELSE LET key == Head(keys)
             value == IF EnvVar(h, key) # None THEN EnvVar(h, key)[1] ELSE ""
         IN  PassEnvLoop(h, Tail(keys), push_env(v, key \o "=" \o value))

\* A mount that is not attempted.
NoMount(v) == [ok |-> TRUE, val |-> FALSE, err |-> <<>>, warn |-> <<>>, args |-> v]

SkillsWarning == <<"davy: warning: continuing without host skills mount.">>

\* Result<RuntimeSettings>, with the warnings written before it returned.
Built(val, warn) == [ok |-> TRUE, val |-> val, err |-> <<>>, warn |-> warn]

Failed(err, warn) == [ok |-> FALSE, val |-> <<>>, err |-> err, warn |-> warn]

build_runtime_settings(a, h) ==
    LET host_uid == h.uid
        host_gid == h.gid
        project_dir == IF a.project_dir # None THEN Ok(a.project_dir[1])
                       ELSE current_dir(h)
        dockerfile == resolve_dockerfile(h, a.dockerfile, a.local_dockerfile)
        context_dir == IF Parent(dockerfile.val) # None
                       THEN Parent(dockerfile.val)[1] ELSE <<".">>
        with_pi_auth == a.with_pi_auth \/ a.auth_all
        with_codex_auth == a.with_codex_auth \/ a.auth_all
        with_gemini_auth == a.with_gemini_auth \/ a.auth_all
        with_claude_auth == a.with_claude_auth \/ a.auth_all
        allow_missing_auth == a.auth_all
        claude_auth_volume ==
            IF EnvVar(h, "DAVY_CLAUDE_AUTH_VOLUME") # None
            THEN EnvVar(h, "DAVY_CLAUDE_AUTH_VOLUME")[1]
            ELSE "davy-claude-auth-" \o ToString(host_uid) \o "-v1"
        home == home_dir(h)
        env1 == PassEnvLoop(h, a.pass_env, ExtraEnvLoop(a.extra_env, <<>>))
        pi == IF with_pi_auth
              THEN add_bind_mount(a.extra_docker_args, h, home.val \o <<".pi", "agent">>,
                                  "/home/dev/.pi/agent", "Pi auth", allow_missing_auth)
              ELSE NoMount(a.extra_docker_args)
        codex == IF with_codex_auth
                 THEN add_bind_mount(pi.args, h, Join(home.val, ".codex"),
                                     "/home/dev/.codex", "Codex auth", allow_missing_auth)
                 ELSE NoMount(pi.args)
        env2 == IF codex.val THEN push_env(env1, "CODEX_HOME=/home/dev/.codex") ELSE env1
        gemini == IF with_gemini_auth
                  THEN add_bind_mount(codex.args, h, Join(home.val, ".gemini"),
                                      "/home/dev/.gemini", "Gemini auth", allow_missing_auth)
                  ELSE NoMount(codex.args)
        skills == add_bind_mount(gemini.args, h, home.val \o <<".agents", "skills">>,
                                 "/home/dev/.agents/skills", "agents skills", TRUE)
        w_pi == pi.warn
        w_codex == w_pi \o codex.warn
        w_gemini == w_codex \o gemini.warn
        w_skills == w_gemini \o skills.warn
        w_all == IF skills.val THEN w_skills ELSE Append(w_skills, SkillsWarning)
        socket == IF a.with_docker_sock
                  THEN resolve_docker_socket_path(h, a.docker_sock)
                  ELSE Ok(<<>>)
        docker_sock == IF a.with_docker_sock THEN Some(socket.val) ELSE None
        sock_gid == docker_sock_gid(h, docker_sock)
        name == IF a.name # None THEN a.name[1]
                ELSE default_container_name(h, project_dir.val)
    IN  IF ~project_dir.ok THEN Failed(project_dir.err, <<>>)
        ELSE IF ~IsDir(h, project_dir.val) THEN
            Failed(<<"project dir not found: ", Display(project_dir.val)>>, <<>>)
        ELSE IF ~dockerfile.ok THEN Failed(dockerfile.err, <<>>)
        ELSE IF ~IsFile(h, dockerfile.val) THEN
            Failed(<<"Dockerfile not found at: ", Display(dockerfile.val)>>, <<>>)
        ELSE IF ~home.ok THEN Failed(home.err, <<>>)
        ELSE IF ~pi.ok THEN Failed(pi.err, <<>>)
        ELSE IF ~codex.ok THEN Failed(codex.err, w_pi)
        ELSE IF ~gemini.ok THEN Failed(gemini.err, w_codex)
        ELSE IF ~skills.ok THEN Failed(skills.err, w_gemini)
        ELSE IF ~socket.ok THEN Failed(socket.err, w_all)
        ELSE IF ~sock_gid.ok THEN Failed(sock_gid.err, w_all)
        ELSE Built([project_dir |-> project_dir.val,
                    dockerfile |-> dockerfile.val,
                    context_dir |-> context_dir,
                    image |-> a.image,
                    name |-> name,
                    host_uid |-> host_uid,
                    host_gid |-> host_gid,
                    keep |-> a.keep,
                    rebuild |-> a.rebuild,
                    no_build |-> a.no_build,
                    docker_sock |-> docker_sock,
                    docker_sock_gid |-> sock_gid.val,
                    expose_ssh |-> a.expose_ssh,
                    with_claude_auth |-> with_claude_auth,
                    claude_auth_volume |-> claude_auth_volume,
                    extra_docker_args |-> skills.args,
                    extra_env_args |-> env2,
                    cmd |-> a.cmd],
                   w_all)

-----------------------------------------------------------------------------
(* Bootstrap script composer.                                              *)

CLAUDE_LINK_SCRIPT ==
    "set -e\n"
    \o "mkdir -p /home/dev/.claude-auth/.claude\n"
    \o "touch /home/dev/.claude-auth/.claude.json\n"
    \o "\n"
    \o "if [ -e /home/dev/.claude ] && [ ! -L /home/dev/.claude ]; then\n"
    \o "  rm -rf /home/dev/.claude\n"
    \o "fi\n"
    \o "if [ -e /home/dev/.claude.json ] && [ ! -L /home/dev/.claude.json ]; then\n"
    \o "  rm -f /home/dev/.claude.json\n"
    \o "fi\n"
    \o "\n"
    \o "ln -sfn /home/dev/.claude-auth/.claude /home/dev/.claude\n"
    \o "ln -sfn /home/dev/.claude-auth/.claude.json /home/dev/.claude.json\n"
    \o "export CLAUDE_CONFIG_DIR=/home/dev/.claude\n"
    \o "\n"
    \o "exec \"$@\""

SSH_BOOTSTRAP_SCRIPT ==
    "set -e\n"
    \o "if ! command -v sshd >/dev/null 2>&1; then\n"
    \o "  echo \"davy: sshd is not installed in image. Rebuild with the latest rocky.Dockerfile.\" >&2\n"
    \o "  exit 1\n"
    \o "fi\n"
    \o "\n"
    \o "if ! command -v ps >/dev/null 2>&1; then\n"
    \o "  echo \"davy: 'ps' is required for remote IDE SSH helpers (VS Code and derivatives).\" >&2\n"
    \o "  echo \"davy: rebuild with the latest rocky.Dockerfile.\" >&2\n"
    \o "  exit 1\n"
    \o "fi\n"
    \o "\n"
    \o "if ! command -v flock >/dev/null 2>&1; then\n"
    \o "  echo \"davy: 'flock' is required for remote IDE SSH helpers (VS Code and derivatives).\" >&2\n"
    \o "  echo \"davy: rebuild with the latest rocky.Dockerfile.\" >&2\n"
    \o "  exit 1\n"
    \o "fi\n"
    \o "\n"
    \o "if [ -z \"${DAVY_SSH_AUTH_KEYS_B64:-}\" ]; then\n"
    \o "  echo \"davy: DAVY_SSH_AUTH_KEYS_B64 is missing.\" >&2\n"
    \o "  exit 1\n"
    \o "fi\n"
    \o "\n"
    \o "mkdir -p /home/dev/.ssh\n"
    \o "chmod 700 /home/dev/.ssh\n"
    \o "if ! printf \"%s\" \"$DAVY_SSH_AUTH_KEYS_B64\" | base64 -d >/home/dev/.ssh/authorized_keys 2>/dev/null; then\n"
    \o "  printf \"%s\" \"$DAVY_SSH_AUTH_KEYS_B64\" | base64 --decode >/home/dev/.ssh/authorized_keys\n"
    \o "fi\n"
    \o "if [ ! -s /home/dev/.ssh/authorized_keys ]; then\n"
    \o "  echo \"davy: decoded authorized_keys is empty.\" >&2\n"
    \o "  exit 1\n"
    \o "fi\n"
    \o "chmod 600 /home/dev/.ssh/authorized_keys\n"
    \o "\n"
    \o "sudo mkdir -p /run/sshd\n"
    \o "if ! ls /etc/ssh/ssh_host_*_key >/dev/null 2>&1; then\n"
    \o "  sudo ssh-keygen -A >/dev/null\n"
    \o "fi\n"
    \o "\n"
    \o "sudo /usr/sbin/sshd \\\n"
    \o "  -o PermitRootLogin=no \\\n"
    \o "  -o PasswordAuthentication=no \\\n"
    \o "  -o KbdInteractiveAuthentication=no \\\n"
    \o "  -o ChallengeResponseAuthentication=no \\\n"
    \o "  -o PubkeyAuthentication=yes \\\n"
    \o "  -o AuthorizedKeysFile=.ssh/authorized_keys \\\n"
    \o "  -o PidFile=/tmp/davy-sshd.pid\n"
    \o "\n"
    \o "exec \"$@\""

wrap_bash_script(script, original_cmd) ==
    <<"bash", "-lc", script, "--">> \o original_cmd

\* final_cmd with the default shell put in after the wrapping.
final_cmd_wrap_first(s) ==
    LET cmd1 == IF s.with_claude_auth
                THEN wrap_bash_script(CLAUDE_LINK_SCRIPT, s.cmd) ELSE s.cmd
        cmd2 == IF s.expose_ssh # None
                THEN wrap_bash_script(SSH_BOOTSTRAP_SCRIPT, cmd1) ELSE cmd1
    IN  IF cmd2 = <<>> THEN <<"bash">> ELSE cmd2

\* final_cmd with the two preludes applied in the opposite order.
final_cmd_ssh_first(s) ==
    LET cmd0 == IF s.cmd = <<>> THEN <<"bash">> ELSE s.cmd
        cmd1 == IF s.expose_ssh # None
                THEN wrap_bash_script(SSH_BOOTSTRAP_SCRIPT, cmd0) ELSE cmd0
    IN  IF s.with_claude_auth
        THEN wrap_bash_script(CLAUDE_LINK_SCRIPT, cmd1) ELSE cmd1

\* run_container, the command vector: the default shell, then the preludes.
final_cmd(s) ==
    LET cmd0 == IF s.cmd = <<>> THEN <<"bash">> ELSE s.cmd
        cmd1 == IF s.with_claude_auth
                THEN wrap_bash_script(CLAUDE_LINK_SCRIPT, cmd0) ELSE cmd0
    IN  IF s.expose_ssh # None
        THEN wrap_bash_script(SSH_BOOTSTRAP_SCRIPT, cmd1) ELSE cmd1

\* run_container, the notices written before the run invocation.
launch_notices(s) ==
    (IF s.docker_sock # None
     THEN <<<<"davy: docker socket mounted from ", Display(s.docker_sock[1]),
              ". Container can control host Docker.">>>>
          \o (IF s.docker_sock_gid # None
              THEN <<<<"davy: adding supplementary group ",
                       ToString(s.docker_sock_gid[1]),
                       " for docker socket access.">>>>
              ELSE <<>>)
     ELSE <<>>)
    \o (IF s.expose_ssh # None
        THEN <<<<"davy: exposing host port ", ToString(s.expose_ssh[1]),
                 " to container port 22.">>,
               <<"davy: SSH login user is 'dev' (key auth only).">>>>
        ELSE <<>>)
    \o (IF s.with_claude_auth
        THEN <<<<"davy: Claude auth volume mounted at /home/dev/.claude-auth (",
                 s.claude_auth_volume, ").">>,
               <<"davy: first use requires running 'claude login' in-container.">>>>
        ELSE <<>>)

-----------------------------------------------------------------------------
(* Invocation composer: the argument vectors handed to docker.             *)

docker_image_exists_argv(image) == <<"image", "inspect", image>>

docker_build_argv(s, pull, no_cache) ==
    <<"build">>
    \o (IF pull THEN <<"--pull">> ELSE <<>>)
    \o (IF no_cache THEN <<"--no-cache">> ELSE <<>>)
    \o <<"--build-arg", "USER_UID=" \o ToString(s.host_uid),
         "--build-arg", "USER_GID=" \o ToString(s.host_gid),
         "-f", Display(s.dockerfile), "-t", s.image, Display(s.context_dir)>>

volume_create_argv(s) == <<"volume", "create", s.claude_auth_volume>>

volume_init_argv(s) ==
    <<"run", "--rm", "--user", "0:0", "-v", s.claude_auth_volume \o ":/auth",
      s.image, "bash", "-lc",
      "mkdir -p /auth/.claude && touch /auth/.claude.json && chown -R "
          \o ToString(s.host_uid) \o ":" \o ToString(s.host_gid) \o " /auth">>

\* The named volume: whether it exists, the owner of its root directory, and
\* the owner of each entry under it.
NoVolume == [exists |-> FALSE, owner |-> "0:0", entries |-> <<>>]

\* docker volume create <name>: a new volume is empty and root's; an
\* existing one is left as it is.
volume_create(v) ==
    IF v.exists THEN v ELSE [exists |-> TRUE, owner |-> "0:0", entries |-> <<>>]

\* The commands of the script of the throwaway container, run as 0:0 with
\* the volume at /auth.
mkdir_p(v, entry) ==
    IF entry \in DOMAIN v.entries THEN v
    ELSE [v EXCEPT !.entries = (entry :> "0:0") @@ @]

touch(v, entry) ==
    IF entry \in DOMAIN v.entries THEN v
    ELSE [v EXCEPT !.entries = (entry :> "0:0") @@ @]

chown_R(v, owner) ==
    [v EXCEPT !.owner = owner, !.entries = [e \in DOMAIN @ |-> owner]]

HostOwner(s) == ToString(s.host_uid) \o ":" \o ToString(s.host_gid)

\* mkdir -p /auth/.claude && touch /auth/.claude.json && chown -R uid:gid /auth
volume_init(v, s) ==
    chown_R(touch(mkdir_p(v, ".claude"), ".claude.json"), HostOwner(s))

\* What the script leaves when it does not end with status 0: the effect of
\* a prefix of its chain.
volume_init_failed(v, s) ==
    {v, mkdir_p(v, ".claude"), touch(mkdir_p(v, ".claude"), ".claude.json")}

\* docker_run with the pass-through flags put before the environment.
docker_run_argv_flags_first(s) ==
    <<"run", "-it">>
    \o (IF ~s.keep THEN <<"--rm">> ELSE <<>>)
    \o <<"--name", s.name, "-v", Display(s.project_dir) \o ":/project",
         "-w", "/project">>
    \o (IF s.with_claude_auth
        THEN <<"--mount", "type=volume,src=" \o s.claude_auth_volume
                              \o ",dst=/home/dev/.claude-auth">>
        ELSE <<>>)
    \o (IF s.docker_sock # None
        THEN <<"-v", Display(s.docker_sock[1]) \o ":/var/run/docker.sock">>
             \o (IF s.docker_sock_gid # None
                 THEN <<"--group-add", ToString(s.docker_sock_gid[1])>>
                 ELSE <<>>)
        ELSE <<>>)
    \o (IF s.expose_ssh # None
        THEN <<"-p", ToString(s.expose_ssh[1]) \o ":22">> ELSE <<>>)
    \o s.extra_docker_args
    \o s.extra_env_args
    \o <<s.image>>
    \o s.cmd

docker_run_argv(s) ==
    <<"run", "-it">>
    \o (IF ~s.keep THEN <<"--rm">> ELSE <<>>)
    \o <<"--name", s.name, "-v", Display(s.project_dir) \o ":/project",
         "-w", "/project">>
    \o (IF s.with_claude_auth
        THEN <<"--mount", "type=volume,src=" \o s.claude_auth_volume
                              \o ",dst=/home/dev/.claude-auth">>
        ELSE <<>>)
    \o (IF s.docker_sock # None
        THEN <<"-v", Display(s.docker_sock[1]) \o ":/var/run/docker.sock">>
             \o (IF s.docker_sock_gid # None
                 THEN <<"--group-add", ToString(s.docker_sock_gid[1])>>
                 ELSE <<>>)
        ELSE <<>>)
    \o (IF s.expose_ssh # None
        THEN <<"-p", ToString(s.expose_ssh[1]) \o ":22">> ELSE <<>>)
    \o s.extra_env_args
    \o s.extra_docker_args
    \o <<s.image>>
    \o s.cmd

-----------------------------------------------------------------------------
(* Child processes.  Command::status() blocks until the child has exited.  *)

MaxExitCode == 3

Running == [state |-> "running", code |-> 0]

SpawnFailed == [state |-> "spawn_failed", code |-> 0]

Signaled == [state |-> "signaled", code |-> 0]

Exited(c) == [state |-> "exited", code |-> c]

\* What a child that was started can end as.
ChildOutcomes == {Exited(c) : c \in 0..MaxExitCode} \cup {Signaled}

\* ExitStatus::success
Success(status) == status.state = "exited" /\ status.code = 0

S == settings[1]

LastInvocation == invocations[Len(invocations)]

\* main: the error is printed and the process exits with status 1.
Fail(msg, warn) ==
    /\ stderr' = stderr \o warn \o <<<<"davy: ">> \o msg>>
    /\ exit_code' = Some(1)
    /\ pc' = "exited"

\* The wait returns: the status of the child started last is known.
Reaped(status) == [invocations EXCEPT ![Len(invocations)].status = status]

\* Command::status(), up to the wait: the child is started, or could not be.
\* log is the record of the invocations before this one.
Spawn(log, step, argv, wait_pc) ==
    IF host.docker_on_path
    THEN /\ invocations' = Append(log, [step |-> step, argv |-> argv,
                                        status |-> Running])
         /\ pc' = wait_pc
         /\ UNCHANGED <<stderr, exit_code>>
    ELSE /\ invocations' = Append(log, [step |-> step, argv |-> argv,
                                        status |-> SpawnFailed])
         /\ Fail(<<"failed to run ", step>>, <<>>)

\* run_checked, once the child has exited.
run_checked(name, status) ==
    IF Success(status) THEN Ok(<<>>)
    ELSE IF status.state = "exited" THEN
        Err(<<name, " exited with status code ", ToString(status.code)>>)
    ELSE Err(<<name, " terminated by signal">>)

-----------------------------------------------------------------------------
(* run_container, one action per stretch of code between two waits.        *)

BuildRuntimeSettings ==
    /\ pc = "start"
    /\ LET r == build_runtime_settings(args, host)
       IN  IF r.ok
           THEN /\ settings' = Some(r.val)
                /\ stderr' = stderr \o r.warn
                /\ pc' = "maybe_build_image"
                /\ UNCHANGED exit_code
           ELSE /\ Fail(r.err, r.warn)
                /\ UNCHANGED settings
    /\ UNCHANGED <<args, host, auth_volume, invocations, ssh_auth_content, encoded, ret>>

\* maybe_build_image that inspects the image whatever the flags are.
MaybeBuildImageInspectsFirst ==
    /\ pc = "maybe_build_image"
    /\ Spawn(invocations, "docker image inspect",
             docker_image_exists_argv(S.image), "wait_image_inspect")
    /\ UNCHANGED <<args, host, auth_volume, settings, ssh_auth_content, encoded, ret>>

MaybeBuildImage ==
    /\ pc = "maybe_build_image"
    /\ IF S.no_build
       THEN Spawn(invocations, "docker image inspect",
                  docker_image_exists_argv(S.image), "wait_image_inspect")
       ELSE IF S.rebuild
       THEN Spawn(invocations, "docker build",
                  docker_build_argv(S, TRUE, TRUE), "wait_build")
       ELSE Spawn(invocations, "docker image inspect",
                  docker_image_exists_argv(S.image), "wait_image_inspect")
    /\ UNCHANGED <<args, host, auth_volume, settings, ssh_auth_content, encoded, ret>>

\* docker_image_exists returns into maybe_build_image.
ImageInspectReturns ==
    /\ pc = "wait_image_inspect"
    /\ \E status \in ChildOutcomes :
        LET exists == Success(status)
        IN  IF S.no_build
            THEN IF exists
                 THEN /\ invocations' = Reaped(status)
                      /\ pc' = "ensure_claude_volume"
                      /\ UNCHANGED <<stderr, exit_code>>
                 ELSE /\ invocations' = Reaped(status)
                      /\ Fail(<<"image '", S.image,
                                "' not found (and --no-build was set)">>, <<>>)
            ELSE IF ~exists
                 THEN Spawn(Reaped(status), "docker build",
                            docker_build_argv(S, FALSE, FALSE), "wait_build")
                 ELSE /\ invocations' = Reaped(status)
                      /\ pc' = "ensure_claude_volume"
                      /\ UNCHANGED <<stderr, exit_code>>
    /\ UNCHANGED <<args, host, auth_volume, settings, ssh_auth_content, encoded, ret>>

\* The wait of a child returns and the launch goes on whatever the status.
CheckedIgnoringStatus(name, next_pc) ==
    \E status \in ChildOutcomes :
        /\ invocations' = Reaped(status)
        /\ pc' = next_pc
        /\ UNCHANGED <<stderr, exit_code>>

\* The run_checked of a child returns: on with next_pc, or the launch fails.
Checked(name, next_pc) ==
    \E status \in ChildOutcomes :
        /\ invocations' = Reaped(status)
        /\ LET r == run_checked(name, status)
           IN  IF r.ok
               THEN pc' = next_pc /\ UNCHANGED <<stderr, exit_code>>
               ELSE Fail(r.err, <<>>)

\* docker_build returns into run_container.
DockerBuildReturns ==
    /\ pc = "wait_build"
    /\ Checked("docker build", "ensure_claude_volume")
    /\ UNCHANGED <<args, host, auth_volume, settings, ssh_auth_content, encoded, ret>>

EnsureClaudeVolumeReady ==
    /\ pc = "ensure_claude_volume"
    /\ IF S.with_claude_auth
       THEN Spawn(invocations, "docker volume create", volume_create_argv(S),
                  "wait_volume_create")
       ELSE pc' = "collect_ssh_keys" /\ UNCHANGED <<invocations, stderr, exit_code>>
    /\ UNCHANGED <<args, host, auth_volume, settings, ssh_auth_content, encoded, ret>>

\* docker volume create has exited and the lifecycle goes on without the
\* throwaway container.
VolumeCreateReturnsSkipsInit ==
    /\ pc = "wait_volume_create"
    /\ \E status \in ChildOutcomes :
        LET r == run_checked("docker volume create", status)
        IN  IF r.ok
            THEN /\ auth_volume' = volume_create(auth_volume)
                 /\ invocations' = Reaped(status)
                 /\ pc' = "collect_ssh_keys"
                 /\ UNCHANGED <<stderr, exit_code>>
            ELSE /\ auth_volume' \in {auth_volume, volume_create(auth_volume)}
                 /\ invocations' = Reaped(status)
                 /\ Fail(r.err, <<>>)
    /\ UNCHANGED <<args, host, settings, ssh_auth_content, encoded, ret>>

\* docker volume create has exited: the throwaway container is started.
VolumeCreateReturns ==
    /\ pc = "wait_volume_create"
    /\ \E status \in ChildOutcomes :
        LET r == run_checked("docker volume create", status)
        IN  IF r.ok
            THEN /\ auth_volume' = volume_create(auth_volume)
                 /\ Spawn(Reaped(status), "docker run (initialize Claude auth volume)",
                          volume_init_argv(S), "wait_volume_init")
            ELSE /\ auth_volume' \in {auth_volume, volume_create(auth_volume)}
                 /\ invocations' = Reaped(status)
                 /\ Fail(r.err, <<>>)
    /\ UNCHANGED <<args, host, settings, ssh_auth_content, encoded, ret>>

\* The throwaway container has exited.
VolumeInitReturns ==
    /\ pc = "wait_volume_init"
    /\ \E status \in ChildOutcomes :
        LET r == run_checked("docker run (initialize Claude auth volume)", status)
        IN  /\ invocations' = Reaped(status)
            /\ IF r.ok
               THEN /\ auth_volume' = volume_init(auth_volume, S)
                    /\ pc' = "collect_ssh_keys"
                    /\ UNCHANGED <<stderr, exit_code>>
               ELSE /\ auth_volume' \in volume_init_failed(auth_volume, S)
                    /\ Fail(r.err, <<>>)
    /\ UNCHANGED <<args, host, settings, ssh_auth_content, encoded, ret>>

\* run_container: the key payload, when SSH exposure is requested.
CollectSshKeys ==
    /\ pc = "collect_ssh_keys"
    /\ IF S.expose_ssh # None
       THEN LET r == collect_ssh_authorized_keys(host)
                enc == Base64Encode(r.val)
            IN  /\ ssh_auth_content' = r
                /\ IF r.ok
                   THEN /\ encoded' = enc
                        /\ settings' = Some([S EXCEPT !.extra_env_args =
                               push_env(@, "DAVY_SSH_AUTH_KEYS_B64=" \o Str(enc))])
                        /\ pc' = "compose"
                        /\ UNCHANGED <<stderr, exit_code>>
                   ELSE /\ Fail(r.err, <<>>)
                        /\ UNCHANGED <<encoded, settings>>
       ELSE /\ pc' = "compose"
            /\ UNCHANGED <<settings, ssh_auth_content, encoded, stderr, exit_code>>
    /\ UNCHANGED <<args, host, auth_volume, invocations, ret>>

\* run_container: the default command, the preludes, the notices, and the
\* run invocation is started.
ComposeAndRun ==
    /\ pc = "compose"
    /\ LET s == [S EXCEPT !.cmd = final_cmd(S)]
       IN  /\ settings' = Some(s)
           /\ IF host.docker_on_path
              THEN /\ invocations' = Append(invocations,
                        [step |-> "docker run", argv |-> docker_run_argv(s),
                         status |-> Running])
                   /\ stderr' = stderr \o launch_notices(s)
                   /\ pc' = "wait_run"
                   /\ UNCHANGED exit_code
              ELSE /\ invocations' = Append(invocations,
                        [step |-> "docker run", argv |-> docker_run_argv(s),
                         status |-> SpawnFailed])
                   /\ Fail(<<"failed to run docker run">>, launch_notices(s))
    /\ UNCHANGED <<args, host, auth_volume, ssh_auth_content, encoded, ret>>

\* docker_run's status handled by run_checked: any failure is an error.
DockerRunReturnsChecked ==
    /\ pc = "wait_run"
    /\ \E status \in ChildOutcomes :
        /\ invocations' = Reaped(status)
        /\ LET r == run_checked("docker run", status)
           IN  IF r.ok
               THEN exit_code' = Some(0) /\ pc' = "exited" /\ UNCHANGED stderr
               ELSE Fail(r.err, <<>>)
    /\ UNCHANGED <<args, host, auth_volume, settings, ssh_auth_content, encoded, ret>>

\* docker_run returns: the child's exit code becomes the process's.
DockerRunReturns ==
    /\ pc = "wait_run"
    /\ \E status \in ChildOutcomes :
        /\ invocations' = Reaped(status)
        /\ IF Success(status)
           THEN exit_code' = Some(0) /\ pc' = "exited" /\ UNCHANGED stderr
           ELSE IF status.state = "exited"
           THEN exit_code' = Some(status.code) /\ pc' = "exited" /\ UNCHANGED stderr
           ELSE Fail(<<"docker run terminated by signal">>, <<>>)
    /\ UNCHANGED <<args, host, auth_volume, settings, ssh_auth_content, encoded, ret>>

Next ==
    \/ BuildRuntimeSettings
    \/ MaybeBuildImage
    \/ ImageInspectReturns
    \/ DockerBuildReturns
    \/ EnsureClaudeVolumeReady
    \/ VolumeCreateReturns
    \/ VolumeInitReturns
    \/ CollectSshKeys
    \/ ComposeAndRun
    \/ DockerRunReturns

-----------------------------------------------------------------------------
(* Launch requests and hosts.                                              *)

HomeDir == <<"/", "home", "u">>

WorkDir == <<"/", "work">>

ProjectDir == <<"/", "tmp", "my-project">>

ConfigDir == HomeDir \o <<".config", "davy">>

SshDir == Join(HomeDir, ".ssh")

AuthorizedKeys == Join(SshDir, "authorized_keys")

KeysOverride == <<"/", "etc", "davy", "keys">>

RunUserSock == <<"/", "run", "user", "1000", "docker.sock">>

DEFAULT_IMAGE == "davy-sandbox:latest"

\* The filesystem fs with path p of the given kind.
WithPath(fs, p, kind) ==
    IF kind = "absent" THEN [q \in DOMAIN fs \ {p} |-> fs[q]]
    ELSE (p :> kind) @@ fs

\* The host h with a file of the given content at path p.
WithFile(h, p, content) ==
    [h EXCEPT !.fs = WithPath(@, p, "file"), !.content = (p :> content) @@ @]

BaseArgs ==
    [project_dir |-> Some(ProjectDir), name |-> None,
     with_docker_sock |-> FALSE, docker_sock |-> None,
     rebuild |-> FALSE, no_build |-> FALSE, keep |-> FALSE,
     expose_ssh |-> None, extra_env |-> <<>>, pass_env |-> <<>>,
     with_pi_auth |-> FALSE, with_codex_auth |-> FALSE,
     with_gemini_auth |-> FALSE, with_claude_auth |-> FALSE,
     auth_all |-> FALSE, image |-> DEFAULT_IMAGE,
     dockerfile |-> None, local_dockerfile |-> FALSE,
     extra_docker_args |-> <<>>, cmd |-> <<>>]

BaseFs ==
    (HomeDir :> "dir") @@ (WorkDir :> "dir") @@ (ProjectDir :> "dir")
    @@ (ConfigDir :> "dir") @@ (Join(ConfigDir, "rocky.Dockerfile") :> "file")

BaseHost ==
    [fs |-> BaseFs, content |-> <<>>, dir_entries |-> <<>>, env |-> <<>>,
     home_env |-> Some(HomeDir), passwd_home |-> Some(HomeDir),
     cwd |-> Some(WorkDir), docker_host |-> None, ssh_keys_file |-> None,
     uid |-> 1000, gid |-> 1000, sock_gid |-> 998,
     now |-> "20260102-030405", docker_on_path |-> TRUE, unix |-> TRUE]

\* Hosts by where the SSH keys are: an override file (missing, with a key,
\* blank), or the default directory (missing, with keys, with blank files).
KeyCases ==
    {"override_missing", "override_key", "override_blank",
     "default_missing", "default_keys", "default_blank"}

KeyHost(h, case) ==
    CASE case = "override_missing" ->
            [h EXCEPT !.ssh_keys_file = Some(KeysOverride)]
      [] case = "override_key" ->
            [WithFile(h, KeysOverride, <<"a", "\n">>)
                EXCEPT !.ssh_keys_file = Some(KeysOverride)]
      [] case = "override_blank" ->
            [WithFile(h, KeysOverride, <<" ", "\n", "\n">>)
                EXCEPT !.ssh_keys_file = Some(KeysOverride)]
      [] case = "default_missing" -> h
      [] case = "default_keys" ->
            [WithFile(WithFile(h, AuthorizedKeys, <<"a", "\n", "b", "\n">>),
                      Join(SshDir, "a.pub"), <<"b", " ", "\n", "k">>)
                EXCEPT !.fs = WithPath(@, SshDir, "dir"),
                       !.dir_entries = (SshDir :> {<<"a", ".", "p", "u", "b">>}) @@ @]
      [] case = "default_blank" ->
            [WithFile(WithFile(h, AuthorizedKeys, <<"\n">>),
                      Join(SshDir, "a.pub"), <<>>)
                EXCEPT !.fs = WithPath(@, SshDir, "dir"),
                       !.dir_entries = (SshDir :> {<<"a", ".", "p", "u", "b">>}) @@ @]

\* Hosts and requests by what build_runtime_settings finds.
ConfigCases ==
    {"valid", "project_missing", "dockerfile_unresolved", "dockerfile_not_file",
     "socket", "socket_missing", "socket_tcp"}

ConfigArgs(a, case) ==
    CASE case = "dockerfile_not_file" ->
            [a EXCEPT !.dockerfile = Some(Join(WorkDir, "Dockerfile"))]
      [] case \in {"socket", "socket_missing", "socket_tcp"} ->
            [a EXCEPT !.with_docker_sock = TRUE]
      [] OTHER -> a

ConfigHost(h, case) ==
    CASE case = "project_missing" -> [h EXCEPT !.fs = WithPath(@, ProjectDir, "absent")]
      [] case = "dockerfile_unresolved" ->
            [h EXCEPT !.fs = WithPath(@, Join(ConfigDir, "rocky.Dockerfile"), "absent")]
      [] case = "socket" -> [h EXCEPT !.fs = WithPath(@, DefaultDockerSock, "socket")]
      [] case = "socket_tcp" ->
            [h EXCEPT !.docker_host = Some(<<"t", "c", "p", ":", "/", "/", "x">>)]
      [] OTHER -> h

\* The launches of the main specification: every combination of the build
\* flags, the credential volume, SSH exposure with each key case, the user
\* command, each configuration case, and docker present or not.
LaunchInputs ==
    {[a |-> ConfigArgs([BaseArgs EXCEPT !.rebuild = rebuild, !.no_build = no_build,
                                        !.with_claude_auth = claude,
                                        !.expose_ssh = ssh[1], !.cmd = cmd],
                       config),
      h |-> [ConfigHost(KeyHost(BaseHost, ssh[2]), config)
                EXCEPT !.docker_on_path = installed]] :
        rebuild \in BOOLEAN, no_build \in BOOLEAN, claude \in BOOLEAN,
        ssh \in {<<None, "default_missing">>} \cup {<<Some(2022), k>> : k \in KeyCases},
        cmd \in {<<>>, <<"echo", "ok">>},
        config \in ConfigCases, installed \in BOOLEAN}

\* The state when run_container is entered with a request on a host whose
\* container runtime holds the credential volume in one of the given states.
EnteredOn(inputs, volumes) ==
    /\ \E i \in inputs : args = i.a /\ host = i.h
    /\ auth_volume \in volumes
    /\ settings = None
    /\ pc = "start"
    /\ invocations = <<>>
    /\ stderr = <<>>
    /\ exit_code = None
    /\ ssh_auth_content = Ok(<<>>)
    /\ encoded = <<>>
    /\ ret = None

\* The state when run_container is entered with a request on a host that
\* has no credential volume yet.
Entered(inputs) == EnteredOn(inputs, {NoVolume})

Init == Entered(LaunchInputs)

Spec == Init /\ [][Next]_vars

\* The launches that vary what docker_run assembles: keep, the credential
\* volume, the docker socket (on a unix and on a non-unix build), SSH
\* exposure, environment entries, pass-through flags, the Codex mount (a
\* mount and an environment directive), the container name.
ArgvInputs ==
    {[a |-> [BaseArgs EXCEPT !.keep = keep, !.with_claude_auth = claude,
                             !.with_docker_sock = (sock # "none"),
                             !.expose_ssh = ssh, !.extra_env = extra_env,
                             !.pass_env = pass_env,
                             !.extra_docker_args = flags,
                             !.with_codex_auth = codex, !.name = name,
                             !.cmd = <<"echo", "ok">>],
      h |-> [KeyHost(BaseHost, "override_key")
                EXCEPT !.fs = WithPath(WithPath(@, DefaultDockerSock, "socket"),
                                       Join(HomeDir, ".codex"), "dir"),
                       !.env = ("TERM" :> "xterm"),
                       !.unix = (sock # "other")]] :
        keep \in BOOLEAN, claude \in BOOLEAN, sock \in {"none", "unix", "other"},
        ssh \in {None, Some(222)},
        extra_env \in {<<>>, <<"A=1">>}, pass_env \in {<<>>, <<"TERM", "UNSET">>},
        flags \in {<<>>, <<"--privileged", "--network", "host">>},
        codex \in BOOLEAN, name \in {None, Some("my-name")}}

InitArgv == Entered(ArgvInputs)

SpecArgv == InitArgv /\ [][Next]_vars

Providers == {"pi", "codex", "gemini"}

MountSource(p) ==
    CASE p = "pi" -> HomeDir \o <<".pi", "agent">>
      [] p = "codex" -> Join(HomeDir, ".codex")
      [] p = "gemini" -> Join(HomeDir, ".gemini")
      [] p = "skills" -> HomeDir \o <<".agents", "skills">>

MountTarget(p) ==
    CASE p = "pi" -> "/home/dev/.pi/agent"
      [] p = "codex" -> "/home/dev/.codex"
      [] p = "gemini" -> "/home/dev/.gemini"
      [] p = "skills" -> "/home/dev/.agents/skills"

MountLabel(p) ==
    CASE p = "pi" -> "Pi auth"
      [] p = "codex" -> "Codex auth"
      [] p = "gemini" -> "Gemini auth"
      [] p = "skills" -> "agents skills"

SourceKinds == {"dir", "absent", "file"}

\* The launches that vary the mounts: each provider flag, "enable all", and
\* each of the four host sources a directory, absent, or a file.
MountInputs ==
    {[a |-> [BaseArgs EXCEPT !.with_pi_auth = pi, !.with_codex_auth = codex,
                             !.with_gemini_auth = gemini, !.auth_all = all],
      h |-> [BaseHost EXCEPT !.fs =
                WithPath(WithPath(WithPath(WithPath(@,
                    MountSource("pi"), kinds[1]),
                    MountSource("codex"), kinds[2]),
                    MountSource("gemini"), kinds[3]),
                    MountSource("skills"), kinds[4])]] :
        pi \in BOOLEAN, codex \in BOOLEAN, gemini \in BOOLEAN, all \in BOOLEAN,
        kinds \in [1..4 -> SourceKinds]}

InitMounts == Entered(MountInputs)

SpecMounts == InitMounts /\ [][Next]_vars

\* The state when one function is called with a request on a host.
Called(inputs) ==
    /\ \E i \in inputs : args = i.a /\ host = i.h
    /\ settings = None
    /\ pc = "call"
    /\ auth_volume = NoVolume
    /\ invocations = <<>>
    /\ stderr = <<>>
    /\ exit_code = None
    /\ ssh_auth_content = Ok(<<>>)
    /\ encoded = <<>>
    /\ ret = None

CandidateKinds == {"file", "absent", "dir"}

\* The calls of resolve_dockerfile: an explicit path (absolute, relative) or
\* none, the prefer-local flag, and each of the four candidates a file,
\* absent, or a directory.
DockerfileInputs ==
    {[a |-> [BaseArgs EXCEPT !.dockerfile = explicit, !.local_dockerfile = local],
      h |-> [BaseHost EXCEPT !.fs =
                WithPath(WithPath(WithPath(WithPath(@,
                    Join(WorkDir, "rocky.Dockerfile"), kinds[1]),
                    Join(WorkDir, "debian.Dockerfile"), kinds[2]),
                    Join(ConfigDir, "rocky.Dockerfile"), kinds[3]),
                    Join(ConfigDir, "debian.Dockerfile"), kinds[4])]] :
        explicit \in {None, Some(<<"/", "opt", "Dockerfile">>), Some(<<"Dockerfile">>)},
        local \in BOOLEAN,
        kinds \in [1..4 -> CandidateKinds]}

InitDockerfile == Called(DockerfileInputs)

CallResolveDockerfile ==
    /\ pc = "call"
    /\ ret' = Some(resolve_dockerfile(host, args.dockerfile, args.local_dockerfile))
    /\ pc' = "returned"
    /\ UNCHANGED <<args, host, auth_volume, settings, invocations, stderr, exit_code,
                   ssh_auth_content, encoded>>

SpecDockerfile == InitDockerfile /\ [][CallResolveDockerfile]_vars

MaxLines == 3

\* The lines a key file is made of: blank, a key, the same key inside
\* whitespace, another key.
RawLines == {<<>>, <<"a">>, <<" ", "a", "\r">>, <<"b">>}

LineSeqs == UNION {[1..n -> RawLines] : n \in 0..MaxLines}

\* A key file with the given lines; one without lines may be absent.
KeyFile(present, lines) == [present |-> present \/ lines # <<>>, lines |-> lines]

\* The ways to lay at most MaxLines lines out over authorized_keys, a.pub
\* and b.pub: the lines, the two places to cut them, and which files exist.
KeyLayouts ==
    {l \in [lines : LineSeqs, i : 0..MaxLines, j : 0..MaxLines,
            present : [1..3 -> BOOLEAN]] :
        l.i <= l.j /\ l.j <= Len(l.lines)}

\* The host h with the key file f at path p.
WithKeyFile(h, p, f) ==
    IF f.present THEN WithFile(h, p, JoinLines(f.lines)) ELSE h

\* The names in ~/.ssh: the *.pub files present, a file that is no *.pub,
\* and a directory named like one.
SshEntries(a, b) ==
    {<<"c", ".", "t", "x", "t">>, <<"k", ".", "p", "u", "b">>}
    \cup (IF a.present THEN {<<"a", ".", "p", "u", "b">>} ELSE {})
    \cup (IF b.present THEN {<<"b", ".", "p", "u", "b">>} ELSE {})

SshHost(auth, a, b) ==
    [WithFile(
        WithKeyFile(WithKeyFile(WithKeyFile(BaseHost, AuthorizedKeys, auth),
                                Join(SshDir, "a.pub"), a),
                    Join(SshDir, "b.pub"), b),
        Join(SshDir, "c.txt"), <<"x", "\n">>)
     EXCEPT !.fs = WithPath(WithPath(@, SshDir, "dir"), Join(SshDir, "k.pub"), "dir"),
            !.dir_entries = (SshDir :> SshEntries(a, b)) @@ @]

\* The calls of collect_ssh_authorized_keys: the default sources with every
\* layout of lines over authorized_keys, a.pub and b.pub, and an override
\* file with every content beside a populated ~/.ssh.
KeysInputs ==
    {[a |-> BaseArgs,
      h |-> SshHost(KeyFile(l.present[1], SubSeq(l.lines, 1, l.i)),
                    KeyFile(l.present[2], SubSeq(l.lines, l.i + 1, l.j)),
                    KeyFile(l.present[3], SubSeq(l.lines, l.j + 1, Len(l.lines))))] :
        l \in KeyLayouts}
    \cup
    {[a |-> BaseArgs,
      h |-> [WithFile(SshHost([present |-> TRUE, lines |-> <<<<"x">>>>],
                              [present |-> TRUE, lines |-> <<<<"x">>>>],
                              [present |-> FALSE, lines |-> <<>>]),
                      KeysOverride, JoinLines(ls))
                EXCEPT !.ssh_keys_file = Some(KeysOverride)]] :
        ls \in LineSeqs}

InitKeys == Called(KeysInputs)

CallCollectSshAuthorizedKeys ==
    /\ pc = "call"
    /\ ssh_auth_content' = collect_ssh_authorized_keys(host)
    /\ pc' = "returned"
    /\ UNCHANGED <<args, host, auth_volume, settings, invocations, stderr, exit_code,
                   encoded, ret>>

SpecKeys == InitKeys /\ [][CallCollectSshAuthorizedKeys]_vars

SockOverride == <<"/", "tmp", "docker.sock">>

\* The values of DOCKER_HOST: a unix socket URL, one with an empty path, one
\* of another scheme, the empty string, and a unix socket URL whose path has
\* a byte that is no UTF-8.
DockerHosts ==
    {UnixPrefix \o <<"/", "r", "u", "n", "/", "u", "s", "e", "r", "/", "1", "0", "0", "0", "/", "d", "o", "c", "k", "e", "r", ".", "s", "o", "c", "k">>,
     UnixPrefix,
     <<"t", "c", "p", ":", "/", "/", "x">>,
     <<>>,
     UnixPrefix \o <<"/", "r", "u", "n", "/">> \o <<InvalidByte>> \o <<".", "s", "o", "c", "k">>}

\* The socket paths the launches of SocketInputs can resolve to.
SockPaths ==
    <<SockOverride, RunUserSock, DefaultDockerSock,
      <<"/", "run", InvalidByte \o ".sock">>>>

\* The launches that vary the docker socket: passthrough requested or not,
\* an override path or none, DOCKER_HOST unset or one of DockerHosts, and
\* each of the paths a socket, absent, or a plain file.
SocketInputs ==
    {[a |-> [BaseArgs EXCEPT !.with_docker_sock = with, !.docker_sock = override,
                             !.with_claude_auth = TRUE],
      h |-> [BaseHost EXCEPT !.docker_host = docker_host,
                !.fs = WithPath(WithPath(WithPath(WithPath(@,
                    SockPaths[1], kinds[1]), SockPaths[2], kinds[2]),
                    SockPaths[3], kinds[3]), SockPaths[4], kinds[4])]] :
        with \in BOOLEAN, override \in {None, Some(SockOverride)},
        docker_host \in {None} \cup {Some(d) : d \in DockerHosts},
        kinds \in [1..4 -> {"socket", "absent", "file"}]}

InitSocket == Entered(SocketInputs)

SpecSocket == InitSocket /\ [][Next]_vars

\* The states the credential volume of user 1000:1000 can be in when a
\* launch starts: none yet, created and nothing more, created with the
\* skeleton still root's, initialized, initialized and in use.
VolumeStates ==
    {NoVolume,
     [exists |-> TRUE, owner |-> "0:0", entries |-> <<>>],
     [exists |-> TRUE, owner |-> "0:0",
      entries |-> (".claude" :> "0:0") @@ (".claude.json" :> "0:0")],
     [exists |-> TRUE, owner |-> "1000:1000",
      entries |-> (".claude" :> "1000:1000") @@ (".claude.json" :> "1000:1000")],
     [exists |-> TRUE, owner |-> "1000:1000",
      entries |-> (".claude" :> "1000:1000") @@ (".claude.json" :> "1000:1000")
                  @@ (".claude/.credentials.json" :> "1000:1000")]}

\* The launches that vary the credential volume: its own flag, "enable all",
\* the name from DAVY_CLAUDE_AUTH_VOLUME or the default one, the image
\* there or to build, docker installed or not.
VolumeInputs ==
    {[a |-> [BaseArgs EXCEPT !.with_claude_auth = claude, !.auth_all = all,
                             !.no_build = no_build, !.cmd = <<"echo", "ok">>],
      h |-> [BaseHost EXCEPT !.env = env, !.docker_on_path = installed]] :
        claude \in BOOLEAN, all \in BOOLEAN, no_build \in BOOLEAN,
        env \in {<<>>, ("DAVY_CLAUDE_AUTH_VOLUME" :> "my-auth")},
        installed \in BOOLEAN}

InitVolume == EnteredOn(VolumeInputs, VolumeStates)

SpecVolume == InitVolume /\ [][Next]_vars

-----------------------------------------------------------------------------
(* Properties.                                                             *)

Last(seq) == seq[Len(seq)]

\* The argument vector holds a directly followed by b.
HasPair(argv, a, b) ==
    \E i \in 1..(Len(argv) - 1) : argv[i] = a /\ argv[i + 1] = b

Invoked(step) == {i \in 1..Len(invocations) : invocations[i].step = step}

\* The process has exited on an error that main printed.
ExitedOnError == exit_code # None /\ stderr # <<>> /\ Last(stderr)[1] = "davy: "

\* The messages of the configuration errors: project directory missing,
\* build definition unresolved or not a file, key override file missing,
\* docker socket unresolved.
ConfigurationErrors ==
    {"project dir not found: ",
     "no Dockerfile found (looked for ",
     "no Dockerfile found in current directory (looked for ",
     "Dockerfile not found at: ",
     "DAVY_SSH_AUTHORIZED_KEYS_FILE not found: ",
     "docker socket not found: ",
     "docker socket path is not a unix socket: ",
     "DOCKER_HOST is set to '"}

\* C1: a launch that ends on a configuration error has exited non-zero
\* without any external command having been invoked.
C1_ConfigurationErrorBeforeAnyCommand ==
    (ExitedOnError /\ Last(stderr)[2] \in ConfigurationErrors)
        => (exit_code[1] # 0 /\ invocations = <<>>)

\* C2: with both rebuild and no-build set, the first and only thing
\* maybe_build_image invokes is the forced build (pull and no-cache); the
\* image is not inspected and the launch does not fail on its absence.
C2_RebuildTakesPrecedence ==
    (args.rebuild /\ args.no_build /\ invocations # <<>>)
        => /\ invocations[1].argv[1] = "build"
           /\ HasPair(invocations[1].argv, "--pull", "--no-cache")
           /\ Invoked("docker image inspect") = {}

\* The inspection of the image has returned.
Inspected ==
    /\ Invoked("docker image inspect") # {}
    /\ invocations[1].status.state \notin {"running", "spawn_failed"}

BuildArgv(i) == invocations[i].argv

\* C3: the build decision with at most one of the two flags set.  Rebuild
\* alone: the first invocation is a build with --pull and --no-cache, no
\* inspection, exactly one build.  Neither flag: the image is inspected
\* first, and a build, without --pull and --no-cache, follows if and only if
\* the inspection did not succeed.  No-build alone: no build ever, and an
\* inspection that does not succeed ends the launch with status 1 and
\* nothing else invoked.  Every build carries USER_UID and USER_GID.
C3_BuildDecision ==
    /\ (args.rebuild /\ ~args.no_build /\ invocations # <<>>) =>
          /\ invocations[1].step = "docker build"
          /\ SubSeq(BuildArgv(1), 1, 3) = <<"build", "--pull", "--no-cache">>
          /\ Invoked("docker build") = {1}
          /\ Invoked("docker image inspect") = {}
    /\ (~args.rebuild /\ ~args.no_build /\ invocations # <<>>) =>
          /\ invocations[1].argv = <<"image", "inspect", args.image>>
          /\ Invoked("docker image inspect") = {1}
          /\ Inspected =>
                /\ (Invoked("docker build") # {}) <=> ~Success(invocations[1].status)
                /\ Invoked("docker build") \subseteq {2}
          /\ \A i \in Invoked("docker build") :
                /\ "--pull" \notin Range(BuildArgv(i))
                /\ "--no-cache" \notin Range(BuildArgv(i))
    /\ (args.no_build /\ ~args.rebuild) =>
          /\ Invoked("docker build") = {}
          /\ invocations # <<>> => invocations[1].argv = <<"image", "inspect", args.image>>
          /\ (Inspected /\ ~Success(invocations[1].status)) =>
                /\ pc = "exited"
                /\ exit_code = Some(1)
                /\ Len(invocations) = 1
    /\ (~(args.rebuild /\ args.no_build)) =>
          \A i \in Invoked("docker build") :
              /\ BuildArgv(i)[1] = "build"
              /\ HasPair(BuildArgv(i), "--build-arg", "USER_UID=" \o ToString(host.uid))
              /\ HasPair(BuildArgv(i), "--build-arg", "USER_GID=" \o ToString(host.gid))

\* C3 witness: with neither flag set the image was found absent, the build
\* was issued and has succeeded.
C3_Witness ==
    /\ ~args.rebuild /\ ~args.no_build
    /\ pc = "ensure_claude_volume"
    /\ Len(invocations) = 2
    /\ ~Success(invocations[1].status)
    /\ invocations[2].argv[1] = "build"

\* The command the user gave, or the interactive shell.
UserCmd == IF args.cmd = <<>> THEN <<"bash">> ELSE args.cmd

\* The command vector without its outermost prelude, if that is script.
Peel(cmd, script) ==
    IF Len(cmd) >= 4 /\ SubSeq(cmd, 1, 4) = <<"bash", "-lc", script, "--">>
    THEN Some(SubSeq(cmd, 5, Len(cmd)))
    ELSE None

\* The trailing arguments of a run invocation: what follows the image.
Trailing(argv, image) ==
    LET at == CHOOSE i \in 1..Len(argv) :
                  /\ argv[i] = image
                  /\ \A j \in (i + 1)..Len(argv) : argv[j] # image
    IN  SubSeq(argv, at + 1, Len(argv))

ClaudeEnabled == args.with_claude_auth \/ args.auth_all

\* C4: in every run invocation the trailing command has the SSH bootstrap
\* as its outermost layer when SSH exposure is enabled, under it the
\* credential-symlink prelude when the credential volume is enabled, and
\* under that exactly the user's command; what follows each "--" is the
\* rest of the chain.
C4_PreludeOrder ==
    \A i \in Invoked("docker run") :
        LET cmd == Trailing(invocations[i].argv, args.image)
            in_ssh == IF args.expose_ssh # None
                      THEN Peel(cmd, SSH_BOOTSTRAP_SCRIPT) ELSE Some(cmd)
            in_claude == IF in_ssh = None THEN None
                         ELSE IF ClaudeEnabled
                         THEN Peel(in_ssh[1], CLAUDE_LINK_SCRIPT) ELSE in_ssh
        IN  /\ in_ssh # None
            /\ in_claude # None
            /\ in_claude[1] = UserCmd

\* C4 witness: a run invocation was issued with both preludes and a command
\* of the user's.
C4_Witness ==
    /\ Invoked("docker run") # {}
    /\ args.expose_ssh # None
    /\ ClaudeEnabled
    /\ args.cmd # <<>>

\* C6: once the process has exited: if the run child exited with code c the
\* process exited with c; if it was killed by a signal the process printed
\* "docker run terminated by signal" and exited with 1; if the run
\* invocation was never started the process printed an error and exited
\* with 1.
C6_ExitStatus ==
    pc = "exited" =>
        LET runs == Invoked("docker run")
            status == Last(invocations).status
        IN  IF runs = {} \/ status.state = "spawn_failed"
            THEN exit_code = Some(1) /\ ExitedOnError
            ELSE /\ runs = {Len(invocations)}
                 /\ status.state = "exited" => exit_code = Some(status.code)
                 /\ status.state = "signaled" =>
                       /\ exit_code = Some(1)
                       /\ Last(stderr) = <<"davy: ", "docker run terminated by signal">>
                 /\ status.state \in {"exited", "signaled"}

\* C6 witness: the run child exited with a code other than 0 and 1, and the
\* process exited with it.
C6_Witness ==
    /\ pc = "exited"
    /\ Invoked("docker run") # {}
    /\ Last(invocations).status = Exited(2)
    /\ exit_code = Some(2)

\* Inverse of the base64 alphabet; padding counts as 0.
B64Index(c) == IF c = "=" THEN 0 ELSE (CHOOSE n \in 1..64 : B64Alphabet[n] = c) - 1

RECURSIVE Base64DecodeBytes(_)
Base64DecodeBytes(cs) ==
    IF Len(cs) < 4 THEN <<>>
    ELSE LET n1 == B64Index(cs[1])
             n2 == B64Index(cs[2])
             n3 == B64Index(cs[3])
             n4 == B64Index(cs[4])
             three == <<n1 * 4 + n2 \div 16, (n2 % 16) * 16 + n3 \div 4,
                        (n3 % 4) * 64 + n4>>
             kept == IF cs[3] = "=" THEN 1 ELSE IF cs[4] = "=" THEN 2 ELSE 3
         IN  SubSeq(three, 1, kept) \o Base64DecodeBytes(SubSeq(cs, 5, Len(cs)))

ByteChars == {"\t", "\n", "\f", "\r", " ", ".", "a", "b", "c", "k", "p", "t", "u", "x"}

\* The text a base64 payload decodes to.
Base64Decode(cs) ==
    LET bs == Base64DecodeBytes(cs)
    IN  [i \in 1..Len(bs) |-> CHOOSE c \in ByteChars : Byte(c) = bs[i]]

Blank(content) == \A i \in 1..Len(content) : content[i] \in WhiteSpace

IsPubName(n) ==
    Len(n) > 4 /\ SubSeq(n, Len(n) - 3, Len(n)) = <<".", "p", "u", "b">>

\* Every key file that the launch would read on host h exists and holds
\* blank lines only, or, in the default directory, is absent.
NoKeysOnHost(h) ==
    IF h.ssh_keys_file # None
    THEN IsFile(h, h.ssh_keys_file[1]) /\ Blank(h.content[h.ssh_keys_file[1]])
    ELSE /\ IsFile(h, AuthorizedKeys) => Blank(h.content[AuthorizedKeys])
         /\ IsDir(h, SshDir) =>
               \A n \in h.dir_entries[SshDir] :
                   (IsPubName(n) /\ IsFile(h, Join(SshDir, Str(n))))
                       => Blank(h.content[Join(SshDir, Str(n))])

OverrideMissing(h) == h.ssh_keys_file # None /\ ~IsFile(h, h.ssh_keys_file[1])

\* C8: with SSH exposure enabled, (a) on a host without a single key the
\* aggregation fails with "no SSH public keys found", the process exits with
\* 1 and no run invocation is ever issued, and the same holds when the
\* override file is missing; (b) every run invocation publishes the port to
\* 22 and carries -e DAVY_SSH_AUTH_KEYS_B64=<payload>, where the payload
\* decodes to a text with at least one line that is not blank.
C8_NeverExposedWithoutKeys ==
    args.expose_ssh # None =>
        /\ (NoKeysOnHost(host) \/ OverrideMissing(host)) =>
              /\ Invoked("docker run") = {}
              /\ pc \notin {"compose", "wait_run"}
              /\ ~ssh_auth_content.ok =>
                    /\ pc = "exited" /\ exit_code = Some(1)
                    /\ NoKeysOnHost(host) => ssh_auth_content.err =
                          <<"no SSH public keys found. Add ~/.ssh/*.pub or set DAVY_SSH_AUTHORIZED_KEYS_FILE">>
        /\ \A i \in Invoked("docker run") :
              /\ HasPair(invocations[i].argv, "-p",
                         ToString(args.expose_ssh[1]) \o ":22")
              /\ HasPair(invocations[i].argv, "-e",
                         "DAVY_SSH_AUTH_KEYS_B64=" \o Str(encoded))
              /\ \E line \in Range(SplitAt(Base64Decode(encoded), "\n", <<>>)) :
                    ~Blank(line)

\* C8 witness: SSH exposure was requested on a host whose default key files
\* are all blank, and the aggregation has failed.
C8_Witness ==
    /\ args.expose_ssh # None
    /\ host.ssh_keys_file = None
    /\ IsFile(host, AuthorizedKeys)
    /\ NoKeysOnHost(host)
    /\ ~ssh_auth_content.ok
    /\ pc = "exited"

Count(b) == IF b THEN 1 ELSE 0

\* C5: every run invocation is, position by position: run -it; --rm iff keep
\* is not set; --name <name> -v <project>:/project -w /project; the
\* credential-volume --mount iff the volume is enabled; the socket -v iff a
\* socket was resolved, then --group-add <gid> iff its group was resolved;
\* -p <port>:22 iff SSH exposure is enabled; the environment directives; the
\* pass-through flags; the image; the command vector.
C5_RunArgvOrder ==
    \A i \in Invoked("docker run") :
        LET argv == invocations[i].argv
            rm == ~S.keep
            vol == S.with_claude_auth
            sock == S.docker_sock # None
            grp == sock /\ S.docker_sock_gid # None
            ssh == S.expose_ssh # None
            at_name == 3 + Count(rm)
            at_vol == at_name + 6
            at_sock == at_vol + 2 * Count(vol)
            at_grp == at_sock + 2 * Count(sock)
            at_ssh == at_grp + 2 * Count(grp)
            at_env == at_ssh + 2 * Count(ssh)
            at_flags == at_env + Len(S.extra_env_args)
            at_image == at_flags + Len(S.extra_docker_args)
        IN  /\ SubSeq(argv, 1, 2) = <<"run", "-it">>
            /\ rm => argv[3] = "--rm"
            /\ SubSeq(argv, at_name, at_name + 5) =
                  <<"--name", S.name, "-v", Display(S.project_dir) \o ":/project",
                    "-w", "/project">>
            /\ vol => SubSeq(argv, at_vol, at_vol + 1) =
                  <<"--mount", "type=volume,src=" \o S.claude_auth_volume
                                   \o ",dst=/home/dev/.claude-auth">>
            /\ sock => SubSeq(argv, at_sock, at_sock + 1) =
                  <<"-v", Display(S.docker_sock[1]) \o ":/var/run/docker.sock">>
            /\ grp => SubSeq(argv, at_grp, at_grp + 1) =
                  <<"--group-add", ToString(S.docker_sock_gid[1])>>
            /\ ssh => SubSeq(argv, at_ssh, at_ssh + 1) =
                  <<"-p", ToString(S.expose_ssh[1]) \o ":22">>
            /\ SubSeq(argv, at_env, at_flags - 1) = S.extra_env_args
            /\ SubSeq(argv, at_flags, at_image - 1) = S.extra_docker_args
            /\ argv[at_image] = S.image
            /\ SubSeq(argv, at_image + 1, Len(argv)) = S.cmd
            /\ S.keep = args.keep
            /\ S.expose_ssh = args.expose_ssh
            /\ vol = ClaudeEnabled
            /\ sock = args.with_docker_sock

\* C5 witness: a run invocation with every optional part present.
C5_Witness ==
    /\ Invoked("docker run") # {}
    /\ ~S.keep /\ S.with_claude_auth /\ S.docker_sock_gid # None
    /\ S.expose_ssh # None
    /\ Len(S.extra_env_args) >= 6
    /\ Len(S.extra_docker_args) >= 5

Attempted(p) ==
    CASE p = "pi" -> args.with_pi_auth \/ args.auth_all
      [] p = "codex" -> args.with_codex_auth \/ args.auth_all
      [] p = "gemini" -> args.with_gemini_auth \/ args.auth_all
      [] p = "skills" -> TRUE

OwnFlag(p) ==
    CASE p = "pi" -> args.with_pi_auth
      [] p = "codex" -> args.with_codex_auth
      [] p = "gemini" -> args.with_gemini_auth

SourceKind(p) == Kind(host, MountSource(p))

MountPair(p) == Display(MountSource(p)) \o ":" \o MountTarget(p)

SkipWarning(p) ==
    <<"davy: warning: ", MountLabel(p), " mount source not found at ",
      Display(MountSource(p)), "; skipping.">>

\* build_runtime_settings has returned.
Planned == pc # "start"

Aborted == pc = "exited" /\ settings = None /\ exit_code = Some(1) /\ invocations = <<>>

\* C10 as stated: a provider enabled by its own flag is Required, so an
\* absent source aborts the launch.
C10_OwnFlagIsRequired ==
    \A p \in Providers :
        (OwnFlag(p) /\ SourceKind(p) = "absent" /\ Planned) => Aborted

\* C10 as amended: a provider enabled by its own flag while "enable all" is
\* not set is Required: an absent source aborts the launch with a mount
\* error.  Whenever "enable all" is set every provider is OptionalWarn, its
\* own flag set or not, and the skills mount is OptionalWarn always: the
\* planner succeeds exactly when every attempted source is a directory or is
\* an absent OptionalWarn source, and then each absent source has its
\* warning on the error stream and no -v directive in the run invocation.
C10_MountRequiredness ==
    LET optional(p) == p = "skills" \/ args.auth_all
        fine(p) == SourceKind(p) = "dir" \/ (SourceKind(p) = "absent" /\ optional(p))
        all == Providers \cup {"skills"}
    IN  /\ \A p \in Providers :
              (OwnFlag(p) /\ ~args.auth_all /\ SourceKind(p) = "absent" /\ Planned)
                  => /\ Aborted
                     /\ Last(stderr)[3] \in {" mount source not found: ",
                                             " mount source is not a directory: "}
        /\ Planned =>
              (settings # None <=> \A p \in all : Attempted(p) => fine(p))
        /\ settings # None =>
              \A p \in all :
                  (Attempted(p) /\ SourceKind(p) = "absent") =>
                      /\ SkipWarning(p) \in Range(stderr)
                      /\ ~HasPair(S.extra_docker_args, "-v", MountPair(p))
                      /\ \A i \in Invoked("docker run") :
                            ~HasPair(invocations[i].argv, "-v", MountPair(p))
        /\ (settings # None /\ SourceKind("skills") = "absent") =>
              SkillsWarning \in Range(stderr)
        /\ \A i \in Invoked("docker run") :
              \A p \in all :
                  (Attempted(p) /\ SourceKind(p) = "dir") =>
                      HasPair(invocations[i].argv, "-v", MountPair(p))

\* C10 witness: under "enable all", with Pi's own flag set too and its
\* source absent, the run invocation was issued without the Pi mount.
C10_Witness ==
    /\ args.auth_all /\ args.with_pi_auth
    /\ SourceKind("pi") = "absent"
    /\ SourceKind("skills") = "absent"
    /\ SourceKind("codex") = "dir"
    /\ Invoked("docker run") # {}

\* The key source files of the host, in the order they are read.
KeySourcesInOrder ==
    IF host.ssh_keys_file # None THEN <<host.ssh_keys_file[1]>>
    ELSE SelectSeq(<<AuthorizedKeys, Join(SshDir, "a.pub"), Join(SshDir, "b.pub")>>,
                   LAMBDA p : IsFile(host, p))

RECURSIVE Flatten(_)
Flatten(seqs) == IF seqs = <<>> THEN <<>> ELSE Head(seqs) \o Flatten(Tail(seqs))

\* The trimmed non-empty lines of all the sources, in reading order.
SourceKeyLines ==
    LET trimmed == Flatten([i \in 1..Len(KeySourcesInOrder) |->
                       [j \in 1..Len(Lines(host.content[KeySourcesInOrder[i]])) |->
                           Trim(Lines(host.content[KeySourcesInOrder[i]])[j])]])
    IN  SelectSeq(trimmed, LAMBDA l : l # <<>>)

FirstAt(seq, v) == CHOOSE i \in 1..Len(seq) : seq[i] = v /\ \A j \in 1..(i - 1) : seq[j] # v

\* C7: the blob returned by collect_ssh_authorized_keys ends with exactly
\* one newline, and the lines before it are the distinct trimmed non-empty
\* lines of the sources, each exactly once, ordered by first occurrence
\* across the sources in reading order (authorized_keys, then the *.pub
\* files by name).
C7_KeysDeduplicated ==
    (pc = "returned" /\ ssh_auth_content.ok) =>
        LET blob == ssh_auth_content.val
            n == Len(blob)
            keys == SplitAt(SubSeq(blob, 1, n - 1), "\n", <<>>)
        IN  /\ n >= 2 /\ blob[n] = "\n" /\ blob[n - 1] # "\n"
            /\ \A i, j \in 1..Len(keys) : keys[i] = keys[j] => i = j
            /\ Range(keys) = Range(SourceKeyLines)
            /\ \A i, j \in 1..Len(keys) :
                  i < j => FirstAt(SourceKeyLines, keys[i]) < FirstAt(SourceKeyLines, keys[j])

\* C7 witness: a.pub brings a second key inside whitespace, b.pub repeats
\* the key of authorized_keys, and the two keys were returned in the order
\* they were first read.
C7_Witness ==
    /\ pc = "returned" /\ ssh_auth_content.ok
    /\ host.ssh_keys_file = None
    /\ IsFile(host, AuthorizedKeys) /\ IsFile(host, Join(SshDir, "b.pub"))
    /\ host.content[AuthorizedKeys] = <<"b">>
    /\ IsFile(host, Join(SshDir, "a.pub"))
    /\ host.content[Join(SshDir, "a.pub")] = <<" ", "a", "\r">>
    /\ host.content[Join(SshDir, "b.pub")] = <<"b">>
    /\ ssh_auth_content.val = <<"b", "\n", "a", "\n">>

CandidateIsFile(dir, name) == IsFile(host, Join(dir, name))

\* C9: resolve_dockerfile returns an explicit path as it is; otherwise with
\* prefer-local <cwd>/rocky.Dockerfile if it is a file, else
\* <cwd>/debian.Dockerfile if it is a file; otherwise
\* <config-dir>/rocky.Dockerfile if it is a file, else
\* <config-dir>/debian.Dockerfile if it is a file; with no candidate of the
\* pair it fails with an error that names both paths of the pair.
C9_DockerfilePrecedence ==
    pc = "returned" =>
        LET r == ret[1]
            dir == IF args.local_dockerfile THEN WorkDir ELSE ConfigDir
            rocky == Join(dir, "rocky.Dockerfile")
            debian == Join(dir, "debian.Dockerfile")
        IN  IF args.dockerfile # None THEN r = Ok(args.dockerfile[1])
            ELSE IF CandidateIsFile(dir, "rocky.Dockerfile") THEN r = Ok(rocky)
            ELSE IF CandidateIsFile(dir, "debian.Dockerfile") THEN r = Ok(debian)
            ELSE /\ ~r.ok
                 /\ {Display(rocky), Display(debian)} \subseteq Range(r.err)

\* C9 witness: with prefer-local, no rocky.Dockerfile in the current
\* directory and a rocky.Dockerfile in the config directory, the
\* debian.Dockerfile of the current directory was returned.
C9_Witness ==
    /\ pc = "returned"
    /\ args.dockerfile = None /\ args.local_dockerfile
    /\ ~CandidateIsFile(WorkDir, "rocky.Dockerfile")
    /\ CandidateIsFile(ConfigDir, "rocky.Dockerfile")
    /\ ret = Some(Ok(Join(WorkDir, "debian.Dockerfile")))

NotDirectoryError(p) ==
    <<"davy: ", MountLabel(p), " mount source is not a directory: ",
      Display(MountSource(p))>>

\* The mounts in the order the planner attempts them.
MountOrder == <<"pi", "codex", "gemini", "skills">>

\* C11: when the source of a mount the planner attempts exists and is no
\* directory, whatever the requiredness of the mount, the planner fails: the
\* launch exits 1 on a mount error with no plan and no external command, and
\* when no earlier mount fails the error is the not-a-directory error of
\* that mount.
C11_NonDirectorySourceFails ==
    \A k \in 1..4 :
        LET p == MountOrder[k]
            earlier_fine ==
                \A m \in 1..(k - 1) :
                    Attempted(MountOrder[m]) =>
                        \/ SourceKind(MountOrder[m]) = "dir"
                        \/ SourceKind(MountOrder[m]) = "absent"
                              /\ (args.auth_all \/ MountOrder[m] = "skills")
        IN  (Attempted(p) /\ SourceKind(p) = "file" /\ Planned) =>
                /\ Aborted
                /\ Last(stderr)[3] \in {" mount source not found: ",
                                        " mount source is not a directory: "}
                /\ earlier_fine => Last(stderr) = NotDirectoryError(p)

\* C11 witness: under "enable all" the Gemini source is a file, the skills
\* source is a file too, and the launch was aborted on the Gemini mount.
C11_Witness ==
    /\ args.auth_all
    /\ SourceKind("pi") = "absent" /\ SourceKind("codex") = "dir"
    /\ SourceKind("gemini") = "file" /\ SourceKind("skills") = "file"
    /\ Aborted
    /\ Last(stderr) = NotDirectoryError("gemini")

\* C12: in every run invocation what follows the image is, in this order,
\* ["bash", "-lc", <SSH bootstrap>, "--"] iff SSH exposure is enabled,
\* ["bash", "-lc", <credential-symlink script>, "--"] iff the credential
\* volume is enabled, and the user's command unchanged, or ["bash"] when the
\* user gave none; with neither feature enabled the invocation holds no
\* "-lc" and ends with exactly the user's command.
C12_FinalCommandVector ==
    \A i \in Invoked("docker run") :
        LET argv == invocations[i].argv
            base == IF args.cmd = <<>> THEN <<"bash">> ELSE args.cmd
            claude == IF ClaudeEnabled
                      THEN <<"bash", "-lc", CLAUDE_LINK_SCRIPT, "--">> ELSE <<>>
            ssh == IF args.expose_ssh # None
                   THEN <<"bash", "-lc", SSH_BOOTSTRAP_SCRIPT, "--">> ELSE <<>>
            expected == ssh \o claude \o base
            at_image == Len(argv) - Len(expected)
        IN  /\ at_image >= 1
            /\ argv[at_image] = args.image
            /\ SubSeq(argv, at_image + 1, Len(argv)) = expected
            /\ (~ClaudeEnabled /\ args.expose_ssh = None) =>
                  /\ \A j \in 1..Len(argv) : argv[j] # "-lc"
                  /\ args.cmd # <<>> => Trailing(argv, args.image) = args.cmd

\* C12 witness: the user gave no command, the credential volume is enabled
\* and SSH exposure is not, and the run invocation ends with the wrapped
\* interactive shell.
C12_Witness ==
    /\ Invoked("docker run") # {}
    /\ args.cmd = <<>> /\ ClaudeEnabled /\ args.expose_ssh = None
    /\ Trailing(LastInvocation.argv, args.image) =
          <<"bash", "-lc", CLAUDE_LINK_SCRIPT, "--", "bash">>

\* C12 second case: the command ["echo", "ok"] with no feature enabled is
\* the whole of the trailing arguments.
C12_PlainCommandReached ==
    /\ Invoked("docker run") # {}
    /\ ~ClaudeEnabled /\ args.expose_ssh = None
    /\ Trailing(LastInvocation.argv, args.image) = <<"echo", "ok">>

\* DOCKER_HOST has the form unix://<non-empty path>.
UnixSocketUrl(value) ==
    /\ Len(value) > Len(UnixPrefix)
    /\ SubSeq(value, 1, Len(UnixPrefix)) = UnixPrefix

\* The path the claim resolves the socket to, if it resolves to one.
ClaimedSocket ==
    IF args.docker_sock # None THEN args.docker_sock
    ELSE IF host.docker_host = None THEN Some(DefaultDockerSock)
    ELSE IF UnixSocketUrl(host.docker_host[1])
    THEN Some(PathFromChars(SubSeq(host.docker_host[1], Len(UnixPrefix) + 1,
                                   Len(host.docker_host[1]))))
    ELSE None

SocketMount(path) == Display(path) \o ":/var/run/docker.sock"

\* C13: with passthrough requested, an override path wins; otherwise a
\* DOCKER_HOST of the form unix://<non-empty path> resolves to that path;
\* otherwise a DOCKER_HOST that is set fails the launch with the error that
\* asks for an override; only an unset DOCKER_HOST resolves to
\* /var/run/docker.sock.  A path that resolves and is a socket is the one
\* mounted in the run invocation.  Without passthrough the run invocation
\* has no socket mount and no supplementary group.
C13_SocketResolution ==
    /\ (args.with_docker_sock /\ Planned /\ ClaimedSocket = None) =>
          /\ Aborted
          /\ Last(stderr)[2] = "DOCKER_HOST is set to '"
    /\ (args.with_docker_sock /\ Planned /\ ClaimedSocket # None) =>
          IF Kind(host, ClaimedSocket[1]) = "socket"
          THEN /\ settings # None
               /\ S.docker_sock = ClaimedSocket
               /\ \A i \in Invoked("docker run") :
                     HasPair(invocations[i].argv, "-v", SocketMount(ClaimedSocket[1]))
          ELSE /\ Aborted
               /\ Last(stderr)[2] \in {"docker socket not found: ",
                                       "docker socket path is not a unix socket: "}
               /\ Last(stderr)[3] = Display(ClaimedSocket[1])
    /\ ~args.with_docker_sock =>
          \A i \in Invoked("docker run") :
              \A j \in 1..Len(invocations[i].argv) :
                  /\ invocations[i].argv[j] # "--group-add"
                  /\ \A k \in 1..4 : invocations[i].argv[j] # SocketMount(SockPaths[k])

\* The place of a step in the pipeline.
StepRank(step) ==
    CASE step = "docker image inspect" -> 1
      [] step = "docker build" -> 2
      [] step = "docker volume create" -> 3
      [] step = "docker run (initialize Claude auth volume)" -> 4
      [] step = "docker run" -> 5

\* The invocation failed: it could not be started or, the image-exists
\* check apart, whose exit status is its answer, it did not succeed.
InvocationFailed(inv) ==
    /\ inv.status # Running
    /\ IF inv.step = "docker image inspect" THEN inv.status = SpawnFailed
       ELSE ~Success(inv.status)

\* C14: the invocations of a launch are issued in the order image-exists
\* check, build, volume create, volume init, run, each at most once; an
\* invocation is issued only when every earlier one has completed and none
\* of them has failed; the run invocation is issued only with a plan, with
\* the key payload when SSH exposure is enabled, and after every earlier
\* step has succeeded; a launch that has ended has no child still running.
C14_SequentialPipeline ==
    LET n == Len(invocations)
    IN  /\ \A i, j \in 1..n :
              i < j => StepRank(invocations[i].step) < StepRank(invocations[j].step)
        /\ \A i \in 1..(n - 1) :
              /\ invocations[i].status # Running
              /\ ~InvocationFailed(invocations[i])
        /\ \A i \in Invoked("docker run") :
              /\ i = n
              /\ settings # None
              /\ args.expose_ssh # None => (ssh_auth_content.ok /\ encoded # <<>>)
              /\ \A j \in 1..(i - 1) :
                    \/ Success(invocations[j].status)
                    \/ invocations[j].step = "docker image inspect"
        /\ pc = "exited" => \A i \in 1..n : invocations[i].status # Running
        /\ (pc = "exited" /\ n > 0 /\ InvocationFailed(invocations[n])
               /\ invocations[n].step # "docker run") =>
              /\ exit_code = Some(1)
              /\ Invoked("docker run") = {}

\* C14 witness: the image was not there, the build succeeded, volume create
\* exited with a failure status, and the launch ended without a run.
C14_Witness ==
    /\ pc = "exited"
    /\ Len(invocations) = 3
    /\ invocations[1].step = "docker image inspect"
    /\ invocations[2].step = "docker build"
    /\ invocations[3].step = "docker volume create"
    /\ invocations[3].status = Exited(1)
    /\ exit_code = Some(1)

\* The name of the credential volume of the launch.
VolumeName ==
    IF "DAVY_CLAUDE_AUTH_VOLUME" \in DOMAIN host.env
    THEN host.env["DAVY_CLAUDE_AUTH_VOLUME"]
    ELSE "davy-claude-auth-" \o ToString(host.uid) \o "-v1"

\* The volume has the skeleton and all of it is the host user's.
Initialized(v) ==
    LET owner == ToString(host.uid) \o ":" \o ToString(host.gid)
    IN  /\ v.exists
        /\ v.owner = owner
        /\ {".claude", ".claude.json"} \subseteq DOMAIN v.entries
        /\ \A e \in DOMAIN v.entries : v.entries[e] = owner

VolumeCreates == Invoked("docker volume create")

VolumeInits == Invoked("docker run (initialize Claude auth volume)")

\* The volume was created and then initialized, both with success, by the
\* invocations before the one at r.
LifecycleDoneBefore(r) ==
    \E c \in VolumeCreates, v \in VolumeInits :
        /\ c < v /\ v < r
        /\ Success(invocations[c].status)
        /\ Success(invocations[v].status)
        /\ invocations[c].argv = <<"volume", "create", VolumeName>>
        /\ SubSeq(invocations[v].argv, 1, 6) =
              <<"run", "--rm", "--user", "0:0", "-v", VolumeName \o ":/auth">>
        /\ Last(invocations[v].argv) =
              "mkdir -p /auth/.claude && touch /auth/.claude.json && chown -R "
                  \o ToString(host.uid) \o ":" \o ToString(host.gid) \o " /auth"

C15_LifecycleState ==
    /\ Cardinality(VolumeCreates) <= 1
    /\ Cardinality(VolumeInits) <= 1
    /\ \A v \in VolumeInits :
          \E c \in VolumeCreates : c < v /\ Success(invocations[c].status)
    /\ ClaudeEnabled =>
          \A r \in Invoked("docker run") :
              /\ LifecycleDoneBefore(r)
              /\ Initialized(auth_volume)
              /\ HasPair(invocations[r].argv, "--mount",
                         "type=volume,src=" \o VolumeName
                             \o ",dst=/home/dev/.claude-auth")
    /\ ~ClaudeEnabled =>
          /\ VolumeCreates = {} /\ VolumeInits = {}
          /\ \A r \in Invoked("docker run") :
                \A j \in 1..Len(invocations[r].argv) :
                    invocations[r].argv[j] # "--mount"

C15_LifecycleStep ==
    /\ Initialized(auth_volume) => auth_volume' = auth_volume
    /\ ~ClaudeEnabled => auth_volume' = auth_volume

\* C15: with the credential volume enabled, by its flag or by "enable all",
\* a run invocation is issued only after one docker volume create of the
\* named volume and then one throwaway root container that makes the
\* skeleton and chowns it to the host uid:gid have both succeeded; the run
\* invocation mounts the volume, which is then initialized.  With the
\* credential volume disabled there is no volume create, no volume init, no
\* --mount in the run invocation, and the volume is not touched.  No step of
\* a launch changes a volume that is already initialized.
C15_CredentialVolumeLifecycle ==
    []C15_LifecycleState /\ [][C15_LifecycleStep]_vars

\* C15 witness: enabled through "enable all" alone, on a volume that was
\* initialized and in use before the launch, the lifecycle ran again and
\* the run invocation was issued on the same initialized volume.
C15_Witness ==
    /\ args.auth_all /\ ~args.with_claude_auth
    /\ Invoked("docker run") # {}
    /\ LifecycleDoneBefore(Len(invocations))
    /\ Initialized(auth_volume)
    /\ ".claude/.credentials.json" \in DOMAIN auth_volume.entries

====
